---- MODULE Spec2Model ----
(***************************************************************************)
(* A model of activitysim's workflow State (core/workflow/state.py): the   *)
(* context (a dict), the predicate-based cache invalidation of set/drop,   *)
(* the table status registry, add_table / extend_table / drop_table, and   *)
(* get_table against the checkpoint history; and of the origin-destination *)
(* choice functions of abm/models/util/tour_od.py.                         *)
(*                                                                         *)
(* Python dicts are modelled as TLA+ functions whose DOMAIN is the set of  *)
(* keys present: `k \in DOMAIN ctx` is `k in self._context`.               *)
(***************************************************************************)
EXTENDS Integers, Sequences, FiniteSets, TLC

VARIABLES
    ctx,              \* State._context: key -> value (tables, scalars, None)
    status,           \* State.existing_table_status (_context["_salient_tables"])
    predicates,       \* State._PREDICATES: key -> list of keys predicated on it
    last_checkpoint,  \* Checkpoints.last_checkpoint: table -> checkpoint name or ""
    checkpoints,      \* Checkpoints.checkpoints: the append-only checkpoint log
    store,            \* the pipeline store: <<table, checkpoint>> -> stored frame
    last,             \* the last call (operation, key, outcome) in the
                      \* specifications that record calls, NotRecorded in
                      \* the others
    open_files,       \* State.open_files: the names of the files to close
    od,               \* the arguments and the result of the function of
                      \* tour_od.py a specification runs
    pc,               \* the position of the running function of tour_od.py
    channels          \* the channels of the random number generator

vars == <<ctx, status, predicates, last_checkpoint, checkpoints, store, last,
          open_files, od, pc, channels>>

\* what the functions of tour_od.py work on
tour_od_vars == <<od, pc, channels>>

\* ------------------------------------------------------------------ bounds

\* the number of checkpoints a run of the model writes
MaxCkpt == 2

\* ------------------------------------------------------------ dict helpers

\* d[k] = v  (insert or overwrite)
Put(d, k, v) == [x \in DOMAIN d \cup {k} |-> IF x = k THEN v ELSE d[x]]

\* del d[k]
Del(d, k) == [x \in DOMAIN d \ {k} |-> d[x]]

\* the empty dict
EmptyDict == <<>>

\* whether x occurs in the list s
InSeq(x, s) == \E i \in 1..Len(s) : s[i] = x

\* the elements of list s that satisfy Keep, in order
RECURSIVE FilterSeq(_, _)
FilterSeq(s, keep) ==
    IF s = <<>> THEN <<>>
    ELSE IF Head(s) \in keep THEN <<Head(s)>> \o FilterSeq(Tail(s), keep)
    ELSE FilterSeq(Tail(s), keep)

SeqSet(s) == {s[i] : i \in 1..Len(s)}

\* ------------------------------------------------------------------ values

\* Python's None, as a stored or returned value
NoneVal == [kind |-> "None"]

\* the sentinel NO_DEFAULT = "throw error if missing"
NO_DEFAULT == [kind |-> "str", s |-> "throw error if missing"]

\* a missing cell of a DataFrame (NaN / None)
NaN == "NaN"

\* a string cell that fillna("") writes
EmptyStr == ""

\* pandas dtypes of a column: object ("O", strings) and numeric ("f")
DTypes == {"O", "f"}

\* A DataFrame: its index (row labels in order), its columns (in order), the
\* dtype of each column and the cell of each (row, column).
Frame(index, columns, dtype, cell) ==
    [kind |-> "frame", index |-> index, columns |-> columns,
     dtype |-> dtype, cell |-> cell]

IsFrame(v) == v.kind = "frame"

\* the tables handed to add_table / extend_table
FA ==
    Frame(<<1>>, <<"a", "s">>, [c \in {"a", "s"} |-> IF c = "s" THEN "O" ELSE "f"],
          [rc \in {1} \X {"a", "s"} |-> IF rc[2] = "s" THEN "x" ELSE "10"])

FB ==
    Frame(<<2>>, <<"a">>, [c \in {"a"} |-> "f"], [rc \in {2} \X {"a"} |-> "20"])

FC ==
    Frame(<<3>>, <<"s", "a">>, [c \in {"a", "s"} |-> IF c = "s" THEN "O" ELSE "f"],
          [rc \in {3} \X {"a", "s"} |-> IF rc[2] = "s" THEN "y" ELSE "30"])

FD ==
    Frame(<<1>>, <<"a", "b">>, [c \in {"a", "b"} |-> "f"],
          [rc \in {1} \X {"a", "b"} |-> IF rc[2] = "a" THEN "99" ELSE "7"])

FE ==
    Frame(<<3>>, <<"a">>, [c \in {"a"} |-> "f"], [rc \in {3} \X {"a"} |-> "30"])

\* a scalar stored under a non-table key (the dict given to set_step_args)
ArgsVal == [kind |-> "dict"]

\* a default a caller hands to State.get
DefaultVal == [kind |-> "list"]

\* a string default that holds a format expression, "{step_args}"
DefaultFmt == [kind |-> "str", s |-> "{step_args}"]

\* the value of a FileSystem attribute
FsVal == [kind |-> "path"]

\* the FileSystem object kept under the key "filesystem"
FsObj == [kind |-> "FileSystem"]

\* -------------------------------------------------------------------- keys

\* the tables of the model
TableKeys == {"land_use", "accessibility", "trips_merged"}

\* State._TEMP_NAMES: tables declared with workflow.temp_table
TEMP_NAMES == {"trips_merged"}

\* State._LOADABLE_TABLES: tables with a registered loader
LOADABLE_TABLES == {"accessibility", "trips_merged"}

\* State._LOADABLE_OBJECTS: none is registered by the modelled sources
LOADABLE_OBJECTS == {}

\* attributes of the FileSystem object that State.get falls back to
FsAttrs == {"output_dir"}

\* every key the model reads or writes
Keys == TableKeys \cup {"step_args", "output_dir", "filesystem"}

\* _PREDICATES.get(key, [])
PredsOf(P, key) == IF key \in DOMAIN P THEN P[key] ELSE <<>>

\* the keys predicated on key, directly or transitively
RECURSIVE Reach(_, _, _)
Reach(P, frontier, seen) ==
    LET next == UNION {SeqSet(PredsOf(P, k)) : k \in frontier} \ seen
    IN  IF next = {} THEN seen ELSE Reach(P, next, seen \cup next)

Dependents(P, key) == Reach(P, {key}, {})

\* the predicate graphs of the model: a chain and a fan, both acyclic
ChainGraph ==
    [k \in {"land_use", "accessibility"} |->
        IF k = "land_use" THEN <<"accessibility">> ELSE <<"trips_merged">>]

FanGraph == [k \in {"land_use"} |-> <<"accessibility", "trips_merged">>]

AcyclicGraphs == {ChainGraph, FanGraph}

\* ------------------------------------------------- context: set and drop

RECURSIVE drop(_, _, _), cascade(_, _, _)

\* the loop `for i in self._PREDICATES.get(key, []): if i in self._context:
\* self.drop(i)` shared by set and drop, over the list lst in order
cascade(c, P, lst) ==
    IF lst = <<>> THEN c
    ELSE LET i == Head(lst)
             c1 == IF i \in DOMAIN c THEN drop(c, P, i) ELSE c
         IN  cascade(c1, P, Tail(lst))

\* State.drop(key), for a key that is in the context
drop(c, P, key) == cascade(Del(c, key), P, PredsOf(P, key))

\* State.set(key, value)
set(c, P, key, value) == cascade(Put(c, key, value), P, PredsOf(P, key))

\* ------------------------------------------------------------ results

\* a call that returned value v
Ok(v) == [kind |-> "ok", value |-> v]

\* a call that raised exception exc with a message naming the things in names
Error(exc, names) == [kind |-> "error", exc |-> exc, names |-> names]

\* ------------------------------------------------------------ State.get

\* self._context.get(key, None)
ctx_get(c, key) == IF key \in DOMAIN c THEN c[key] ELSE NoneVal

\* getattr(self.filesystem, key, None), None too when the filesystem is not
\* initialized (StateAccessError)
fs_getattr(c, key) ==
    IF "filesystem" \in DOMAIN c /\ c["filesystem"] # NoneVal /\ key \in FsAttrs
    THEN FsVal
    ELSE NoneVal

\* the context key a string value's format expression names, "" for a value
\* that holds no "{token}"
TokenOf(v) == IF v.kind = "str" /\ v.s = "{step_args}" THEN "step_args" ELSE ""

\* pypyr's Context.get_formatted_value, which State.get passes its result
\* through: a string is formatted against the context (a "{token}" is
\* replaced by the text of context[token], and a token that is no key of the
\* context raises KeyNotInContextError); a value that is no string with a
\* token comes back as it is
get_formatted_value(c, v) ==
    IF TokenOf(v) = "" THEN Ok(v)
    ELSE IF TokenOf(v) \in DOMAIN c
    THEN Ok([kind |-> "str", s |-> "formatted", with |-> c[TokenOf(v)]])
    ELSE Error("KeyNotInContextError", {TokenOf(v)})

\* the skeleton table pd.DataFrame(index=land_use.index) of the accessibility
\* loader
Skeleton(land_use) == Frame(land_use.index, <<>>, <<>>, <<>>)

\* what a registered table loader returns: accessibility needs land_use and
\* builds the skeleton table from it; trips_merged is a join of tables outside
\* the model
load(c, key) ==
    IF key = "accessibility"
    THEN IF "land_use" \in DOMAIN c /\ IsFrame(c["land_use"])
         THEN Ok(Skeleton(c["land_use"]))
         ELSE Error("ValueError", {"land_use"})
    ELSE Ok(FB)

\* whether State.get(key) reaches the call of the key's loader
get_loads(c, key) ==
    /\ ctx_get(c, key) = NoneVal
    /\ fs_getattr(c, key) = NoneVal
    /\ key \in LOADABLE_TABLES \cup LOADABLE_OBJECTS

\* a get that is self._context.get(key, None) and nothing else: no default,
\* no error for a missing key
get_or_none(c, key, default) == Ok(ctx_get(c, key))

\* State.get(key, default): what it returns or raises
get(c, key, default) ==
    LET r1 == ctx_get(c, key)
        r2 == IF r1 = NoneVal THEN fs_getattr(c, key) ELSE r1
        r3 == IF r2 = NoneVal /\ key \in LOADABLE_TABLES \cup LOADABLE_OBJECTS
              THEN load(c, key)
              ELSE Ok(r2)
    IN  IF r3.kind = "error" THEN r3
        ELSE IF r3.value = NoneVal
        THEN IF default # NO_DEFAULT
             THEN get_formatted_value(c, default)
             ELSE Error(IF key \in DOMAIN c THEN "KeyInContextHasNoValueError"
                        ELSE "KeyNotInContextError", {key})
        ELSE IF IsFrame(r3.value) THEN r3
        ELSE get_formatted_value(c, r3.value)

\* ------------------------------------------------------- table registry

\* State.is_table(name)
is_table(st, name) == name \in DOMAIN st

\* State.uncheckpointed_table_names()
uncheckpointed_table_names(st) == {t \in DOMAIN st : st[t] /\ t \notin TEMP_NAMES}

\* an add_table that takes every table for salient
always_salient(name) == TRUE

\* add_table's `if salient is None: salient = name not in self._TEMP_NAMES`
default_salient(name) == name \notin TEMP_NAMES

\* add_table's effect on existing_table_status
add_table_status(st, name, salient) == IF salient THEN Put(st, name, TRUE) ELSE st

\* State.get_dataframe(tablename) as extend_table calls it, for a registered
\* table: a cached frame is returned, a missing or None entry goes to
\* _load_or_create_dataset, which raises for a name already in the registry
get_dataframe(c, st, name) ==
    LET t == ctx_get(c, name)
    IN  IF t = NoneVal
        THEN IF name \in DOMAIN st
             THEN Error("ValueError", {name})
             ELSE IF name \notin LOADABLE_TABLES
             THEN Error("ValueError", {name})
             ELSE load(c, name)
        ELSE IF IsFrame(t) THEN Ok(t)
        ELSE Error("TypeError", {name})

\* ----------------------------------------------------------- DataFrames

Rows(f) == SeqSet(f.index)

Cols(f) == SeqSet(f.columns)

\* an extend_table without the assertion on the indexes
any_index(t, d) == TRUE

\* len(table_df.index.intersection(df.index)) == 0
IndexDisjoint(t, d) == Rows(t) \cap Rows(d) = {}

\* table_df.index.equals(df.index)
IndexEquals(t, d) == t.index = d.index

\* an extend_table without the backfill of string columns
no_str_columns(t, d) == <<>>

\* extend_table's missing_df_str_columns for axis 0
missing_df_str_columns(t, d) ==
    FilterSeq(t.columns, {c \in Cols(t) : c \notin Cols(d) /\ t.dtype[c] = "O"})

\* an extend_table that concatenates every column of df
all_df_columns(t, d) == d.columns

\* extend_table's new_df_columns for axis 1
new_df_columns(t, d) == FilterSeq(d.columns, Cols(d) \ Cols(t))

\* df[new_df_columns]
SelectCols(d, cols) ==
    Frame(d.index, cols, [c \in SeqSet(cols) |-> d.dtype[c]],
          [rc \in Rows(d) \X SeqSet(cols) |-> d.cell[rc]])

\* pd.concat([t, d], sort=False, axis=0): the rows of t then the rows of d,
\* the columns of t then the columns only d has, NaN where a frame lacks a
\* column
concat0(t, d) ==
    LET cols == t.columns \o FilterSeq(d.columns, Cols(d) \ Cols(t))
        idx == t.index \o d.index
    IN  Frame(idx, cols,
              [c \in SeqSet(cols) |->
                  IF c \in Cols(t) /\ c \in Cols(d)
                  THEN IF t.dtype[c] = d.dtype[c] THEN t.dtype[c] ELSE "O"
                  ELSE IF c \in Cols(t) THEN t.dtype[c] ELSE d.dtype[c]],
              [rc \in SeqSet(idx) \X SeqSet(cols) |->
                  IF rc[1] \in Rows(t)
                  THEN IF rc[2] \in Cols(t) THEN t.cell[rc] ELSE NaN
                  ELSE IF rc[2] \in Cols(d) THEN d.cell[rc] ELSE NaN])

\* pd.concat([t, d], sort=False, axis=1) for frames with the same index and
\* no column in common
concat1(t, d) ==
    LET cols == t.columns \o d.columns
    IN  Frame(t.index, cols,
              [c \in SeqSet(cols) |-> IF c \in Cols(t) THEN t.dtype[c] ELSE d.dtype[c]],
              [rc \in Rows(t) \X SeqSet(cols) |->
                  IF rc[2] \in Cols(t) THEN t.cell[rc] ELSE d.cell[rc]])

\* the loop `for c in missing_df_str_columns: df[c] = df[c].fillna("")`
fillna(f, cols) ==
    Frame(f.index, f.columns, f.dtype,
          [rc \in Rows(f) \X Cols(f) |->
              IF rc[2] \in SeqSet(cols) /\ f.cell[rc] = NaN THEN EmptyStr
              ELSE f.cell[rc]])

\* the frame extend_table stores for a registered table, or the assertion
\* it fails
extended(t, d, axis) ==
    IF axis = 0
    THEN IF ~IndexDisjoint(t, d) THEN Error("AssertionError", {})
         ELSE Ok(fillna(concat0(t, d), missing_df_str_columns(t, d)))
    ELSE IF ~IndexEquals(t, d) THEN Error("AssertionError", {})
         ELSE Ok(concat1(t, SelectCols(d, new_df_columns(t, d))))

\* an extend_table that appends to whatever frame the context holds,
\* registered or not
extend_table_any(c, st, name, df, axis) ==
    IF name \in DOMAIN c /\ c[name] # NoneVal
    THEN extended(c[name], df, axis)
    ELSE Ok(df)

\* State.extend_table(table_name, df, axis): the frame it hands to add_table
\* and returns, or the error it raises
extend_table(c, st, name, df, axis) ==
    IF is_table(st, name)
    THEN LET table_df == get_dataframe(c, st, name)
         IN  IF table_df.kind = "error" THEN table_df
             ELSE extended(table_df.value, df, axis)
    ELSE Ok(df)

\* ------------------------------------------------------------ checkpoints

\* the names of the checkpoints, in the order they are written (the names of
\* the steps of the run list)
CkptNames == <<"c1", "c2", "c3", "c4">>

\* the marker last_checkpoint holds for a dropped table
Dropped == ""

\* checkpoint_name=None, and checkpoint_name=n
NoCheckpoint == <<>>

At(n) == <<n>>

\* the pipeline store's key of a table version, "{table}/{checkpoint}"
pipeline_table_key(name, checkpoint_name) == <<name, checkpoint_name>>

\* Checkpoints._read_df(table_name, checkpoint_name)
read_df(sto, name, checkpoint_name) == sto[pipeline_table_key(name, checkpoint_name)]

\* whether add_checkpoint can read every table it has to write
can_checkpoint(c, st) ==
    \A t \in uncheckpointed_table_names(st) : get_dataframe(c, st, t).kind = "ok"

\* add_checkpoint: last_checkpoint after every uncheckpointed table was
\* written under the new name
checkpoint_last(st, lc, checkpoint_name) ==
    [t \in DOMAIN lc \cup uncheckpointed_table_names(st) |->
        IF t \in uncheckpointed_table_names(st) THEN checkpoint_name ELSE lc[t]]

\* add_checkpoint: the store after every uncheckpointed table was written
checkpoint_store(c, st, sto, checkpoint_name) ==
    LET new == {pipeline_table_key(t, checkpoint_name) : t \in uncheckpointed_table_names(st)}
    IN  [k \in DOMAIN sto \cup new |-> IF k \in new THEN c[k[1]] ELSE sto[k]]

\* add_checkpoint: every written table is marked as not edited
checkpoint_status(st) ==
    [t \in DOMAIN st |-> IF t \in uncheckpointed_table_names(st) THEN FALSE ELSE st[t]]

\* a search for the checkpoint that settles for the last one written
find_or_last(cps, checkpoint_name, i) == Len(cps)

\* the first checkpoint named checkpoint_name, 0 when there is none
RECURSIVE find_checkpoint(_, _, _)
find_checkpoint(cps, checkpoint_name, i) ==
    IF i > Len(cps) THEN 0
    ELSE IF cps[i].checkpoint_name = checkpoint_name THEN i
    ELSE find_checkpoint(cps, checkpoint_name, i + 1)

\* a get_table that never reads the store: the table as the context has it
get_table_cached(c, st, lc, cps, sto, name, cn) == Ok(ctx_get(c, name))

\* State.get_table(table_name, checkpoint_name)
get_table(c, st, lc, cps, sto, name, cn) ==
    IF name \notin DOMAIN lc /\ is_table(st, name)
    THEN IF cn # NoCheckpoint
         THEN Error("RuntimeError", {name, cn[1]})
         ELSE Ok(ctx_get(c, name))
    ELSE IF cn = NoCheckpoint
    THEN IF name \notin DOMAIN lc THEN Error("RuntimeError", {name})
         ELSE IF lc[name] = Dropped THEN Error("RuntimeError", {name})
         ELSE Ok(ctx_get(c, name))
    ELSE LET i == find_checkpoint(cps, cn[1], 1)
         IN  IF i = 0 THEN Error("RuntimeError", {cn[1]})
             ELSE LET tables == cps[i].tables
                      last_checkpoint_name ==
                          IF name \in DOMAIN tables THEN tables[name] ELSE Dropped
                  IN  IF last_checkpoint_name = Dropped
                      THEN Error("RuntimeError", {name, cn[1]})
                      ELSE IF name \in DOMAIN lc /\ lc[name] = last_checkpoint_name
                      THEN Ok(ctx_get(c, name))
                      ELSE Ok(read_df(sto, name, last_checkpoint_name))

\* a drop_table that goes through State.drop, cascade included, under the
\* fan graph
drop_table_cascading(c, st, name) ==
    IF is_table(st, name) /\ name \in DOMAIN c THEN drop(c, FanGraph, name) ELSE c

\* drop_table's effect on the context
drop_table_ctx(c, st, name) == IF is_table(st, name) THEN Del(c, name) ELSE c

\* drop_table's effect on existing_table_status
drop_table_status(st, name) == IF is_table(st, name) THEN Del(st, name) ELSE st

\* a drop_table that leaves last_checkpoint alone
keep_last(lc, name) == lc

\* drop_table's effect on last_checkpoint
drop_table_last(lc, name) == IF name \in DOMAIN lc THEN Put(lc, name, Dropped) ELSE lc

\* ---------------------------------------------------------------- actions

\* the value of `od` while no function of tour_od.py runs
NoOd == [fn |-> "none"]

\* the value of `last` in a specification that does not record calls
NotRecorded == [op |-> "not recorded"]

\* the record of a call: the operation, its key, its other arguments and
\* what it returned or raised
Called(op, key, args, out) ==
    IF last = NotRecorded THEN NotRecorded
    ELSE [op |-> op, key |-> key, args |-> args, out |-> out]

\* the record before any call
NoCall == [op |-> "init", key |-> "", args |-> <<>>, out |-> Ok(NoneVal)]

\* State(): an empty context, init_state() empties the table registry and
\* the checkpoint history
Init ==
    /\ ctx = EmptyDict
    /\ status = EmptyDict
    /\ predicates \in AcyclicGraphs
    /\ last_checkpoint = EmptyDict
    /\ checkpoints = <<>>
    /\ store = EmptyDict
    /\ last = NotRecorded
    /\ open_files = {}
    /\ od = NoOd
    /\ pc = "idle"
    /\ channels = {}

\* State.set(key, value)
Set(key, value) ==
    /\ ctx' = set(ctx, predicates, key, value)
    /\ last' = Called("set", key, <<value>>, Ok(NoneVal))
    /\ UNCHANGED <<status, predicates, last_checkpoint, checkpoints, store>>
    /\ UNCHANGED <<open_files, tour_od_vars>>

\* State.drop(key): `del self._context[key]` raises KeyError for a missing key
Drop(key) ==
    /\ IF key \in DOMAIN ctx
       THEN /\ ctx' = drop(ctx, predicates, key)
            /\ last' = Called("drop", key, <<>>, Ok(NoneVal))
       ELSE /\ ctx' = ctx
            /\ last' = Called("drop", key, <<>>, Error("KeyError", {key}))
    /\ UNCHANGED <<status, predicates, last_checkpoint, checkpoints, store>>
    /\ UNCHANGED <<open_files, tour_od_vars>>

\* State.initialize_filesystem(): the StateAttr setter writes the context
\* directly
InitializeFilesystem ==
    /\ ctx' = Put(ctx, "filesystem", FsObj)
    /\ last' = Called("initialize_filesystem", "filesystem", <<>>, Ok(NoneVal))
    /\ UNCHANGED <<status, predicates, last_checkpoint, checkpoints, store>>
    /\ UNCHANGED <<open_files, tour_od_vars>>

\* State.get(key, default); the accessibility loader, when get calls it and
\* it succeeds, stores its table with add_table
Get(key, default) ==
    /\ last' = Called("get", key, <<default>>, get(ctx, key, default))
    /\ IF get_loads(ctx, key) /\ key = "accessibility" /\ load(ctx, key).kind = "ok"
       THEN /\ status' = add_table_status(status, key, default_salient(key))
            /\ ctx' = set(ctx, predicates, key, load(ctx, key).value)
       ELSE UNCHANGED <<ctx, status>>
    /\ UNCHANGED <<predicates, last_checkpoint, checkpoints, store>>
    /\ UNCHANGED <<open_files, tour_od_vars>>

\* State.add_table(name, content), salient left unspecified
AddTable(name, content) ==
    /\ status' = add_table_status(status, name, default_salient(name))
    /\ ctx' = set(ctx, predicates, name, content)
    /\ last' = Called("add_table", name, <<content>>, Ok(NoneVal))
    /\ UNCHANGED <<predicates, last_checkpoint, checkpoints, store>>
    /\ UNCHANGED <<open_files, tour_od_vars>>

\* State.extend_table(table_name, df, axis)
ExtendTable(name, df, axis) ==
    LET r == extend_table(ctx, status, name, df, axis)
    IN  /\ last' = Called("extend_table", name, <<df, axis>>, r)
        /\ IF r.kind = "ok"
           THEN /\ status' = add_table_status(status, name, default_salient(name))
                /\ ctx' = set(ctx, predicates, name, r.value)
           ELSE UNCHANGED <<ctx, status>>
        /\ UNCHANGED <<predicates, last_checkpoint, checkpoints, store>>
        /\ UNCHANGED <<open_files, tour_od_vars>>

\* State.drop_table(table_name)
DropTable(name) ==
    /\ ctx' = drop_table_ctx(ctx, status, name)
    /\ status' = drop_table_status(status, name)
    /\ last_checkpoint' = drop_table_last(last_checkpoint, name)
    /\ last' = Called("drop_table", name, <<>>, Ok(NoneVal))
    /\ UNCHANGED <<predicates, checkpoints, store>>
    /\ UNCHANGED <<open_files, tour_od_vars>>

\* Checkpoints.add(checkpoint_name): every uncheckpointed table is written to
\* the store under the new name, the others keep their reference, and a copy
\* of last_checkpoint is appended to the log
AddCheckpoint ==
    /\ Len(checkpoints) < MaxCkpt
    /\ LET checkpoint_name == CkptNames[Len(checkpoints) + 1]
           lc == checkpoint_last(status, last_checkpoint, checkpoint_name)
       IN  IF can_checkpoint(ctx, status)
           THEN /\ store' = checkpoint_store(ctx, status, store, checkpoint_name)
                /\ last_checkpoint' = lc
                /\ status' = checkpoint_status(status)
                /\ checkpoints' = Append(checkpoints,
                        [checkpoint_name |-> checkpoint_name, tables |-> lc])
                /\ last' = Called("add_checkpoint", checkpoint_name, <<>>, Ok(NoneVal))
           ELSE /\ last' = Called("add_checkpoint", checkpoint_name, <<>>,
                                  Error("ValueError", {checkpoint_name}))
                /\ UNCHANGED <<store, last_checkpoint, status, checkpoints>>
    /\ UNCHANGED <<ctx, predicates>>
    /\ UNCHANGED <<open_files, tour_od_vars>>

\* the tables the calls hand over for each table name
ContentsOf(name) ==
    IF name = "land_use" THEN {FA, FB}
    ELSE IF name = "accessibility" THEN {FA}
    ELSE {FB}

\* the context, the cascade, the table registry and the checkpoints
Next ==
    \/ \E name \in TableKeys : \E content \in ContentsOf(name) : AddTable(name, content)
    \/ \E name \in TableKeys : ExtendTable(name, FA, 1)
    \/ \E key \in {"land_use", "accessibility"} : Set(key, FA)
    \/ \E key \in TableKeys : Drop(key)
    \/ \E name \in TableKeys : DropTable(name)
    \/ AddCheckpoint

Spec == Init /\ [][Next]_vars

\* ---------------------------------------------- State.get, calls recorded

\* the keys State.get is called with, and the defaults
GetKeys == {"step_args", "output_dir", "land_use", "accessibility", "trips_merged"}

Defaults == {NO_DEFAULT, DefaultVal, NoneVal, DefaultFmt}

InitGet ==
    /\ ctx = EmptyDict
    /\ status = EmptyDict
    /\ predicates \in AcyclicGraphs
    /\ last_checkpoint = EmptyDict
    /\ checkpoints = <<>>
    /\ store = EmptyDict
    /\ last = NoCall
    /\ open_files = {}
    /\ od = NoOd
    /\ pc = "idle"
    /\ channels = {}

NextGet ==
    \/ \E value \in {NoneVal, ArgsVal} : Set("step_args", value)
    \/ Drop("step_args")
    \/ InitializeFilesystem
    \/ \E content \in {FA, FB} : AddTable("land_use", content)
    \/ DropTable("accessibility")
    \/ \E key \in GetKeys, default \in Defaults : Get(key, default)

SpecGet == InitGet /\ [][NextGet]_vars

\* ------------------------------------------- extend_table, calls recorded

\* the tables handed to add_table and extend_table
AllFrames == {FA, FB, FC, FD, FE}

FrameKeys == {"land_use", "trips_merged"}

NextFrames ==
    \/ \E name \in FrameKeys, content \in {FA, FB} : AddTable(name, content)
    \/ \E name \in FrameKeys, df \in AllFrames, axis \in {0, 1} : ExtendTable(name, df, axis)
    \/ \E name \in FrameKeys : DropTable(name)
    \/ Drop("land_use")

SpecFrames == InitGet /\ [][NextFrames]_vars

\* A run of the table life cycle with every call recorded, so that a call
\* that changes nothing (drop_table of a name that is no registered table) is
\* a step of its own.
DropKeys == {"land_use", "trips_merged"}

NextDrop ==
    \/ \E name \in DropKeys : \E content \in {FA, FB} : AddTable(name, content)
    \/ \E name \in TableKeys : DropTable(name)
    \/ AddCheckpoint

SpecDrop == InitGet /\ [][NextDrop]_vars

\* --------------------------------------- tables and checkpoints only

\* a run that only adds, extends, drops and checkpoints tables
NextTables ==
    \/ \E content \in {FA, FB} : AddTable("land_use", content)
    \/ AddTable("accessibility", FA)
    \/ \E name \in {"land_use", "accessibility"} : ExtendTable(name, FB, 0)
    \/ \E name \in {"land_use", "accessibility"} : DropTable(name)
    \/ AddCheckpoint

SpecTables == Init /\ [][NextTables]_vars

\* ----------------------------------- this_step, open files, init_state

\* the number of steps the model opens without closing one
MaxSteps == 2

\* the workflow steps handed to the this_step setter
Steps == {"step_a", "step_b"}

\* the names files are registered under with close_on_exit
FileNames == {"log"}

\* a Python list kept in the context
ListVal(items) == [kind |-> "list", items |-> items]

\* step_list = self._context.get("_this_step", [])
step_list(c) == IF "_this_step" \in DOMAIN c THEN c["_this_step"].items ELSE <<>>

\* the this_step property: the last step of the list, ValueError without one
this_step(c) ==
    IF step_list(c) = <<>> THEN Error("ValueError", {"not in a step"})
    ELSE Ok(step_list(c)[Len(step_list(c))])

\* a setter that replaces the current step
this_step_replace(c, x) == Put(c, "_this_step", ListVal(<<x>>))

\* the this_step setter: the step is appended to the list
this_step_set(c, x) == Put(c, "_this_step", ListVal(Append(step_list(c), x)))

\* the this_step deleter, for a list that is not empty: the last step is
\* popped
this_step_del(c) ==
    Put(c, "_this_step", ListVal(SubSeq(step_list(c), 1, Len(step_list(c)) - 1)))

\* an init_state that keeps the table registry
keep_status(st) == st

\* init_state's `self._context["_salient_tables"] = {}`
init_state_status(st) == EmptyDict

\* State.close_open_files(): every file is closed and open_files cleared
close_open_files(files) == {}

\* self.this_step = x
SetThisStep(x) ==
    /\ Len(step_list(ctx)) < MaxSteps
    /\ ctx' = this_step_set(ctx, x)
    /\ last' = Called("this_step.setter", "_this_step", <<x>>, Ok(NoneVal))
    /\ UNCHANGED <<status, predicates, last_checkpoint, checkpoints, store>>
    /\ UNCHANGED <<open_files, tour_od_vars>>

\* del self.this_step: pop() of an empty list raises IndexError before the
\* context is written
DelThisStep ==
    /\ IF step_list(ctx) = <<>>
       THEN /\ ctx' = ctx
            /\ last' = Called("this_step.deleter", "_this_step", <<>>,
                              Error("IndexError", {"pop from empty list"}))
       ELSE /\ ctx' = this_step_del(ctx)
            /\ last' = Called("this_step.deleter", "_this_step", <<>>, Ok(NoneVal))
    /\ UNCHANGED <<status, predicates, last_checkpoint, checkpoints, store>>
    /\ UNCHANGED <<open_files, tour_od_vars>>

\* self.this_step
GetThisStep ==
    /\ last' = Called("this_step", "_this_step", <<>>, this_step(ctx))
    /\ UNCHANGED <<ctx, status, predicates, last_checkpoint, checkpoints, store>>
    /\ UNCHANGED <<open_files, tour_od_vars>>

\* State.close_on_exit(file, name)
CloseOnExit(name) ==
    /\ IF name \in open_files
       THEN /\ open_files' = open_files
            /\ last' = Called("close_on_exit", name, <<>>, Error("AssertionError", {}))
       ELSE /\ open_files' = open_files \cup {name}
            /\ last' = Called("close_on_exit", name, <<>>, Ok(NoneVal))
    /\ UNCHANGED <<ctx, status, predicates, last_checkpoint, checkpoints, store>>
    /\ UNCHANGED tour_od_vars

\* State.init_state(): the checkpoints are wiped out (Checkpoints.initialize),
\* the open files closed, the random generator replaced by a new one without
\* channels, the table registry replaced by an empty dict; no other key of
\* the context is written
InitState ==
    /\ checkpoints' = <<>>
    /\ last_checkpoint' = EmptyDict
    /\ open_files' = close_open_files(open_files)
    /\ channels' = {}
    /\ status' = init_state_status(status)
    /\ last' = Called("init_state", "", <<>>, Ok(NoneVal))
    /\ UNCHANGED <<ctx, predicates, store, od, pc>>

\* the steps, the files and the tables of a State that is initialized again
NextLife ==
    \/ \E x \in Steps : SetThisStep(x)
    \/ DelThisStep
    \/ GetThisStep
    \/ \E name \in FileNames : CloseOnExit(name)
    \/ \E content \in {FA, FB} : AddTable("land_use", content)
    \/ AddTable("trips_merged", FB)
    \/ AddCheckpoint
    \/ InitState

SpecLife == InitGet /\ [][NextLife]_vars

\* ------------------------------- set and drop, one statement at a time

\* predicate graphs with cycles: a key predicated on itself, a cycle of two
\* and of three keys, and a cycle with a second way round
SelfGraph == [k \in {"land_use"} |-> <<"land_use">>]

TwoCycle ==
    [k \in {"land_use", "accessibility"} |->
        IF k = "land_use" THEN <<"accessibility">> ELSE <<"land_use">>]

ThreeCycle ==
    [k \in TableKeys |->
        IF k = "land_use" THEN <<"accessibility">>
        ELSE IF k = "accessibility" THEN <<"trips_merged">>
        ELSE <<"land_use">>]

BranchCycle ==
    [k \in {"land_use", "accessibility"} |->
        IF k = "land_use" THEN <<"trips_merged", "accessibility">>
        ELSE <<"land_use", "trips_merged">>]

CyclicGraphs == {SelfGraph, TwoCycle, ThreeCycle, BranchCycle}

\* a loop that calls drop for every key predicated on the key
always_enters(c, i) == TRUE

\* `if i in self._context:` of the loops of set and drop
cascade_enters(c, i) == i \in DOMAIN c

\* the frame of a call of set or drop that is in its loop: the keys the
\* loop has still to look at
Frame_of(P, key) == [key |-> key, rest |-> PredsOf(P, key)]

\* a call of set or drop about to be made on a context that caches some of
\* the tables
InitCycle ==
    /\ status = EmptyDict
    /\ predicates \in CyclicGraphs \cup {ChainGraph}
    /\ last_checkpoint = EmptyDict
    /\ checkpoints = <<>>
    /\ store = EmptyDict
    /\ last = NotRecorded
    /\ open_files = {}
    /\ pc = "idle"
    /\ channels = {}
    /\ \E cached \in SUBSET TableKeys, fn \in {"set", "drop"}, key \in TableKeys :
          /\ ctx = [k \in cached |-> FA]
          /\ od = [fn |-> fn, key |-> key, value |-> FB, cached |-> cached,
                   stack |-> <<>>]

\* State.set(key, value) is called: `self._context[key] = value`, then the
\* loop
CallSet ==
    /\ od.fn = "set" /\ pc = "idle"
    /\ ctx' = Put(ctx, od.key, od.value)
    /\ od' = [od EXCEPT !.stack = <<Frame_of(predicates, od.key)>>]
    /\ pc' = "running"
    /\ UNCHANGED <<status, predicates, last_checkpoint, checkpoints, store, last,
                   open_files, channels>>

\* State.drop(key) is called: `del self._context[key]`, which raises
\* KeyError for a key that is not there, then the loop
CallDrop ==
    /\ od.fn = "drop" /\ pc = "idle"
    /\ IF od.key \in DOMAIN ctx
       THEN /\ ctx' = Del(ctx, od.key)
            /\ od' = [od EXCEPT !.stack = <<Frame_of(predicates, od.key)>>]
            /\ pc' = "running"
       ELSE /\ pc' = "raised"
            /\ UNCHANGED <<ctx, od>>
    /\ UNCHANGED <<status, predicates, last_checkpoint, checkpoints, store, last,
                   open_files, channels>>

\* one turn of the loop of the innermost call: the next key i, and for an i
\* the loop enters, the call self.drop(i) with its `del self._context[i]`
CascadeStep ==
    /\ pc = "running"
    /\ od.stack # <<>>
    /\ LET n == Len(od.stack)
           top == od.stack[n]
           i == Head(top.rest)
           turned == [od.stack EXCEPT ![n].rest = Tail(top.rest)]
       IN  /\ top.rest # <<>>
           /\ IF ~cascade_enters(ctx, i)
              THEN /\ od' = [od EXCEPT !.stack = turned]
                   /\ UNCHANGED <<ctx, pc>>
              ELSE IF i \in DOMAIN ctx
              THEN /\ ctx' = Del(ctx, i)
                   /\ od' = [od EXCEPT !.stack = Append(turned, Frame_of(predicates, i))]
                   /\ pc' = pc
              ELSE /\ pc' = "raised"
                   /\ UNCHANGED <<ctx, od>>
    /\ UNCHANGED <<status, predicates, last_checkpoint, checkpoints, store, last,
                   open_files, channels>>

\* the loop of the innermost call is over: the call returns to its caller
CascadeReturn ==
    /\ pc = "running"
    /\ od.stack # <<>>
    /\ od.stack[Len(od.stack)].rest = <<>>
    /\ od' = [od EXCEPT !.stack = SubSeq(od.stack, 1, Len(od.stack) - 1)]
    /\ pc' = IF Len(od.stack) = 1 THEN "returned" ELSE "running"
    /\ UNCHANGED <<ctx, status, predicates, last_checkpoint, checkpoints, store,
                   last, open_files, channels>>

NextCycle == CallSet \/ CallDrop \/ CascadeStep \/ CascadeReturn

SpecCycle == InitCycle /\ [][NextCycle]_vars

\* the interpreter runs the call to its end: a statement that can be
\* executed is executed
SpecCycleFair == SpecCycle /\ WF_vars(NextCycle)

\* ------------------------------------------------------------ StateAttr

\* the attributes of State that are StateAttr descriptors without
\* default_init
StateAttrs == {"filesystem", "settings", "network_settings"}

\* the Settings object kept under the key "settings"
SettingsObj == [kind |-> "Settings"]

\* the NetworkSettings object kept under the key "network_settings"
NetworkSettingsObj == [kind |-> "NetworkSettings"]

\* the member_type of a StateAttr
member_type(name) ==
    IF name = "filesystem" THEN "FileSystem"
    ELSE IF name = "settings" THEN "Settings"
    ELSE "NetworkSettings"

\* isinstance(value, self.member_type)
isinstance(value, type) == value.kind = type

\* StateAttr.__get__: the value in the context, StateAccessError without one
StateAttr_get(c, name) ==
    IF name \in DOMAIN c THEN Ok(c[name])
    ELSE Error("StateAccessError", {name})

\* StateAttr.__set__: the context after the write, or the TypeError for a
\* value that is not of the member type
StateAttr_set(c, name, value) ==
    IF ~isinstance(value, member_type(name)) THEN Error("TypeError", {name})
    ELSE Ok(Put(c, name, value))

\* a __delete__ that deletes the key from the context
StateAttr_delete_key(c, name) == Ok(Del(c, name))

\* StateAttr.__delete__: self.__set__(instance, None)
StateAttr_delete(c, name) == StateAttr_set(c, name, NoneVal)

\* state.<name> = value
SetAttr(name, value) ==
    LET r == StateAttr_set(ctx, name, value)
    IN  /\ ctx' = IF r.kind = "ok" THEN r.value ELSE ctx
        /\ last' = Called("__set__", name, <<value>>,
                          IF r.kind = "ok" THEN Ok(NoneVal) ELSE r)
        /\ UNCHANGED <<status, predicates, last_checkpoint, checkpoints, store>>
        /\ UNCHANGED <<open_files, tour_od_vars>>

\* del state.<name>
DelAttr(name) ==
    LET r == StateAttr_delete(ctx, name)
    IN  /\ ctx' = IF r.kind = "ok" THEN r.value ELSE ctx
        /\ last' = Called("__delete__", name, <<>>,
                          IF r.kind = "ok" THEN Ok(NoneVal) ELSE r)
        /\ UNCHANGED <<status, predicates, last_checkpoint, checkpoints, store>>
        /\ UNCHANGED <<open_files, tour_od_vars>>

\* state.<name>
GetAttr(name) ==
    /\ last' = Called("__get__", name, <<>>, StateAttr_get(ctx, name))
    /\ UNCHANGED <<ctx, status, predicates, last_checkpoint, checkpoints, store>>
    /\ UNCHANGED <<open_files, tour_od_vars>>

\* the attributes of a State written, read and deleted; State.drop is the
\* call that takes a key out of the context
NextAttr ==
    \/ \E name \in StateAttrs, value \in {FsObj, SettingsObj, NetworkSettingsObj, NoneVal} :
          SetAttr(name, value)
    \/ \E name \in StateAttrs : DelAttr(name)
    \/ \E name \in StateAttrs : GetAttr(name)
    \/ \E name \in StateAttrs : Drop(name)

SpecAttr == InitGet /\ [][NextAttr]_vars

\* ------------------------------------------ get_dataframe with loading

\* whether State.get_dataframe(name) gets a table from the name's loader,
\* which _load_or_create_dataset then stores with add_table
get_dataframe_loads(c, st, name) ==
    /\ ctx_get(c, name) = NoneVal
    /\ name \notin DOMAIN st
    /\ name \in LOADABLE_TABLES
    /\ load(c, name).kind = "ok"

\* State.get_dataframe(tablename)
GetDataframe(name) ==
    /\ last' = Called("get_dataframe", name, <<>>, get_dataframe(ctx, status, name))
    /\ IF get_dataframe_loads(ctx, status, name)
       THEN /\ status' = add_table_status(status, name, default_salient(name))
            /\ ctx' = set(ctx, predicates, name, load(ctx, name).value)
       ELSE UNCHANGED <<ctx, status>>
    /\ UNCHANGED <<predicates, last_checkpoint, checkpoints, store>>
    /\ UNCHANGED <<open_files, tour_od_vars>>

\* tables that are loaded on demand and removed only by the cascade of a
\* write to land_use; there is no drop and no drop_table
NextRegen ==
    \/ \E content \in {FA, FB} : AddTable("land_use", content)
    \/ \E value \in {FA, FB} : Set("land_use", value)
    \/ \E name \in TableKeys : GetDataframe(name)

SpecRegen == InitGet /\ [][NextRegen]_vars

\* ------------------------------------------- tour_od.choose_MAZ_for_TAZ

\* Probabilities and random draws are fixed-point numbers: the integer n
\* stands for n / Scale, and a division rounds down, as a float division
\* may: the probabilities of a row can add up to less than 1.
Scale == 4

\* the sum of the first n entries of a sequence of numbers (numpy cumsum)
RECURSIVE cumsum(_, _)
cumsum(row, n) == IF n = 0 THEN 0 ELSE cumsum(row, n - 1) + row[n]

\* the largest entry of a non-empty sequence of numbers
seq_max(row) == CHOOSE m \in SeqSet(row) : \A x \in SeqSet(row) : x <= m

\* taz_sample[...].reindex(index.repeat(pick_count)): every row of
\* taz_sample repeated pick_count times, prob renamed to TAZ_prob
RECURSIVE taz_choices(_)
taz_choices(taz_sample) ==
    IF taz_sample = <<>> THEN <<>>
    ELSE LET row == Head(taz_sample)
         IN  [k \in 1..row.pick_count |->
                 [chooser |-> row.chooser, dest_TAZ |-> row.dest_TAZ,
                  key |-> row.key, TAZ_prob |-> row.prob]]
             \o taz_choices(Tail(taz_sample))

\* the rows pd.merge(..., MAZ_size_terms, how="left", on=DEST_TAZ) gives one
\* draw: the MAZs of its TAZ, in the order of MAZ_size_terms (every sampled
\* TAZ has a MAZ: both tables come from aggregate_size_terms)
candidates(MAZ_size_terms, taz) == SelectSeq(MAZ_size_terms, LAMBDA m : m.dest_TAZ = taz)

\* maz_sizes: the rows of all draws one after the other
RECURSIVE maz_sizes(_, _)
maz_sizes(tc, MAZ_size_terms) ==
    IF tc = <<>> THEN <<>>
    ELSE candidates(MAZ_size_terms, Head(tc).dest_TAZ) \o maz_sizes(Tail(tc), MAZ_size_terms)

\* maz_counts = maz_sizes.groupby(maz_sizes.index).size().values
maz_counts(tc, MAZ_size_terms) ==
    [i \in 1..Len(tc) |-> Len(candidates(MAZ_size_terms, tc[i].dest_TAZ))]

\* offsets that are all zero
zero_offsets(counts) == [i \in 1..Len(counts) |-> 0]

\* first_row_offsets = np.insert(maz_counts.cumsum()[:-1], 0, 0)
first_row_offsets(counts) == [i \in 1..Len(counts) |-> cumsum(counts, i - 1)]

\* a padding that gives the filler slots a weight
padded_with_ones(tc, MAZ_size_terms) ==
    [i \in 1..Len(tc) |->
        [j \in 1..seq_max(maz_counts(tc, MAZ_size_terms)) |->
            IF j <= maz_counts(tc, MAZ_size_terms)[i]
            THEN candidates(MAZ_size_terms, tc[i].dest_TAZ)[j].size_term
            ELSE 1]]

\* padded_maz_sizes = np.insert(size_term.values, inserts, 0.0).reshape(-1,
\* max_maz_count): one row per draw, the size terms of its MAZs and then
\* zero filler up to max_maz_count columns
padded_maz_sizes(tc, MAZ_size_terms) ==
    LET counts == maz_counts(tc, MAZ_size_terms)
        flat == maz_sizes(tc, MAZ_size_terms)
        first == first_row_offsets(counts)
    IN  [i \in 1..Len(tc) |->
            [j \in 1..seq_max(counts) |->
                IF j <= counts[i] THEN flat[first[i] + j].size_term ELSE 0]]

\* a maz_probs that divides by the largest row sum of the array
maz_probs_of_max(padded) ==
    LET sums == [i \in 1..Len(padded) |-> cumsum(padded[i], Len(padded[i]))]
    IN  [i \in 1..Len(padded) |->
            [j \in 1..Len(padded[i]) |-> (padded[i][j] * Scale) \div seq_max(sums)]]

\* maz_probs = np.divide(padded_maz_sizes, row_sums.reshape(-1, 1))
maz_probs(padded) ==
    [i \in 1..Len(padded) |->
        LET row_sum == cumsum(padded[i], Len(padded[i]))
        IN  [j \in 1..Len(padded[i]) |-> (padded[i][j] * Scale) \div row_sum]]

\* np.argmax((probs.cumsum() - rand) > 0.0) for one row: the column, counted
\* from 0, of the first True, and 0 when no entry is True
argmax_first(probs, rand) ==
    LET hits == {j \in 1..Len(probs) : cumsum(probs, j) - rand > 0}
    IN  IF hits = {} THEN 0
        ELSE (CHOOSE j \in hits : \A k \in hits : j <= k) - 1

\* positions that are all drawn with the first random number of the array
positions_first_rand(probs, rands) ==
    [i \in 1..Len(probs) |-> argmax_first(probs[i], rands[1])]

\* positions = np.argmax((maz_probs.cumsum(axis=1) - rands) > 0.0, axis=1)
positions(probs, rands) == [i \in 1..Len(probs) |-> argmax_first(probs[i], rands[i])]

\* the chooser ids of taz_sample without duplicates, in their order:
\* taz_sample.index[~taz_sample.index.duplicated()]
RECURSIVE chooser_index(_)
chooser_index(taz_sample) ==
    IF taz_sample = <<>> THEN <<>>
    ELSE LET rest == chooser_index(SubSeq(taz_sample, 1, Len(taz_sample) - 1))
             c == taz_sample[Len(taz_sample)].chooser
         IN  IF InSeq(c, rest) THEN rest ELSE Append(rest, c)

\* taz_sample_size = taz_choices.groupby(chooser_id_col)[DEST_TAZ].count().max()
taz_sample_size(tc) ==
    seq_max([i \in 1..Len(tc) |->
                Cardinality({k \in 1..Len(tc) : tc[k].chooser = tc[i].chooser})])

\* np.repeat(chooser_df.index, taz_sample_size)
repeat_index(index, n) == [k \in 1..(Len(index) * n) |-> index[((k - 1) \div n) + 1]]

\* the key of a grouping without the additional column
group_key_without_addtl(draw) == <<draw.chooser, draw.dest_MAZ, 0>>

\* the (chooser, dest_MAZ, key) of a draw
group_key(draw) == <<draw.chooser, draw.dest_MAZ, draw.key>>

\* the order groupby sorts its keys in
key_before(a, b) ==
    \/ a[1] < b[1]
    \/ a[1] = b[1] /\ a[2] < b[2]
    \/ a[1] = b[1] /\ a[2] = b[2] /\ a[3] <= b[3]

RECURSIVE sorted_keys(_)
sorted_keys(keys) ==
    IF keys = {} THEN <<>>
    ELSE LET m == CHOOSE a \in keys : \A b \in keys : key_before(a, b)
         IN  <<m>> \o sorted_keys(keys \ {m})

\* an aggregation that adds up the probabilities of the draws of a group
agg_sum(draws, key) ==
    LET members == {i \in 1..Len(draws) : group_key(draws[i]) = key}
        probs == [i \in 1..Len(draws) |-> IF i \in members THEN draws[i].prob ELSE 0]
    IN  [chooser |-> key[1], dest_MAZ |-> key[2], key |-> key[3],
         prob |-> cumsum(probs, Len(probs)), pick_count |-> Cardinality(members)]

\* an aggregation that counts every group as one pick
agg_first_one(draws, key) ==
    LET members == {i \in 1..Len(draws) : group_key(draws[i]) = key}
        first == CHOOSE i \in members : \A k \in members : i <= k
    IN  [chooser |-> key[1], dest_MAZ |-> key[2], key |-> key[3],
         prob |-> draws[first].prob, pick_count |-> 1]

\* .agg(prob=("prob", "first"), pick_count=("prob", "count")) for one group
agg_first_count(draws, key) ==
    LET members == {i \in 1..Len(draws) : group_key(draws[i]) = key}
        first == CHOOSE i \in members : \A k \in members : i <= k
    IN  [chooser |-> key[1], dest_MAZ |-> key[2], key |-> key[3],
         prob |-> draws[first].prob, pick_count |-> Cardinality(members)]

\* taz_choices.groupby([chooser_id_col, dest_maz_id_col] + addtl).agg(...)
\* followed by reset_index and set_index(chooser_id_col)
taz_choices_w_maz(draws) ==
    LET keys == sorted_keys({group_key(draws[i]) : i \in 1..Len(draws)})
    IN  [g \in 1..Len(keys) |-> agg_first_count(draws, keys[g])]

\* choose_MAZ_for_TAZ(taz_sample, MAZ_size_terms), the random generator
\* handing out rands: the draws with the MAZ chosen for each (the local
\* taz_choices) and the grouped table it returns, or the assertion it fails
choose_MAZ_for_TAZ(taz_sample, MAZ_size_terms, rands) ==
    LET tc == taz_choices(taz_sample)
        index == chooser_index(taz_sample)
        size == taz_sample_size(tc)
        counts == maz_counts(tc, MAZ_size_terms)
        first == first_row_offsets(counts)
        flat == maz_sizes(tc, MAZ_size_terms)
        probs == maz_probs(padded_maz_sizes(tc, MAZ_size_terms))
        pos == positions(probs, rands)
        draws == [i \in 1..Len(tc) |->
                    [chooser |-> tc[i].chooser, dest_TAZ |-> tc[i].dest_TAZ,
                     key |-> tc[i].key, position |-> pos[i],
                     dest_MAZ |-> flat[pos[i] + first[i] + 1].zone_id,
                     MAZ_prob |-> probs[i][pos[i] + 1],
                     prob |-> tc[i].TAZ_prob * probs[i][pos[i] + 1]]]
    IN  IF [i \in 1..Len(tc) |-> tc[i].chooser] # repeat_index(index, size)
        THEN Error("AssertionError", {"taz_choices"})
        ELSE IF Len(rands) # Len(index) * size
        THEN Error("AssertionError", {"rands"})
        ELSE IF \E i \in 1..Len(tc) : ~(pos[i] < counts[i])
        THEN Error("AssertionError", {"positions"})
        ELSE Ok([taz_choices |-> draws, taz_choices_w_maz |-> taz_choices_w_maz(draws)])

\* a row of taz_sample: chooser id (the index), sampled TAZ, its probability,
\* its pick_count and the additional key column (the origin MAZ)
taz_row(chooser, dest_TAZ, prob, pick_count, key) ==
    [chooser |-> chooser, dest_TAZ |-> dest_TAZ, prob |-> prob,
     pick_count |-> pick_count, key |-> key]

\* a row of MAZ_size_terms
maz_row(zone_id, dest_TAZ, size_term) ==
    [zone_id |-> zone_id, dest_TAZ |-> dest_TAZ, size_term |-> size_term]

\* the size terms of the MAZs: strictly positive, as dest_size_terms_df
\* keeps only the rows with size_term > 0
Sizes == {1, 2}

\* MAZ_size_terms, sorted by TAZ and zone: MAZs 11 and 12 in TAZ 1, MAZ 21
\* in TAZ 2
MazTables ==
    {<<maz_row(11, 1, a), maz_row(12, 1, b), maz_row(21, 2, c)>> :
        a \in Sizes, b \in Sizes, c \in Sizes}

\* the samples of TAZs: one or two choosers, every chooser with the same
\* number of picks
TazSamples ==
    {<<taz_row(7, 1, 2, 2, 5)>>,
     <<taz_row(7, 1, 2, 1, 5), taz_row(7, 2, 1, 1, 5)>>,
     <<taz_row(7, 2, 1, 3, 5)>>,
     <<taz_row(7, 1, 2, 1, 5), taz_row(7, 1, 1, 1, 6)>>,
     <<taz_row(7, 1, 2, 1, 5), taz_row(7, 1, 1, 1, 5)>>,
     <<taz_row(7, 1, 2, 2, 5), taz_row(8, 1, 1, 1, 5), taz_row(8, 2, 3, 1, 5)>>}

\* the number of draws of a sample
RECURSIVE n_draws(_)
n_draws(taz_sample) ==
    IF taz_sample = <<>> THEN 0
    ELSE Head(taz_sample).pick_count + n_draws(Tail(taz_sample))

\* a call of choose_MAZ_for_TAZ about to be made: its arguments and the
\* uniform draws in [0, 1) the random generator will hand out
InitMaz ==
    /\ ctx = EmptyDict
    /\ status = EmptyDict
    /\ predicates = ChainGraph
    /\ last_checkpoint = EmptyDict
    /\ checkpoints = <<>>
    /\ store = EmptyDict
    /\ last = NotRecorded
    /\ open_files = {}
    /\ pc = "idle"
    /\ channels = {}
    /\ \E taz_sample \in TazSamples, MAZ_size_terms \in MazTables :
          \E rands \in [1..n_draws(taz_sample) -> 0..(Scale - 1)] :
             od = [fn |-> "choose_MAZ_for_TAZ", taz_sample |-> taz_sample,
                   MAZ_size_terms |-> MAZ_size_terms, rands |-> rands,
                   result |-> NoneVal]

\* choose_MAZ_for_TAZ runs
ChooseMAZ ==
    /\ od.fn = "choose_MAZ_for_TAZ"
    /\ pc = "idle"
    /\ od' = [od EXCEPT !.result =
                 choose_MAZ_for_TAZ(od.taz_sample, od.MAZ_size_terms, od.rands)]
    /\ pc' = "returned"
    /\ UNCHANGED <<ctx, status, predicates, last_checkpoint, checkpoints, store,
                   last, open_files, channels>>

NextMaz == ChooseMAZ

SpecMaz == InitMaz /\ [][NextMaz]_vars

\* ------------------------- choose_MAZ_for_TAZ with and without others

\* the rows of chooser 7, two draws in all
OwnSamples ==
    {<<taz_row(7, 2, 1, 2, 5)>>,
     <<taz_row(7, 1, 2, 1, 5), taz_row(7, 2, 1, 1, 5)>>,
     <<taz_row(7, 1, 2, 2, 5)>>}

\* the rows of another chooser o; the last has one draw only, which is not
\* the number of draws of chooser 7
OtherSamples(o) ==
    {<<taz_row(o, 1, 1, 2, 5)>>,
     <<taz_row(o, 2, 1, 2, 5)>>,
     <<taz_row(o, 1, 1, 1, 5), taz_row(o, 2, 3, 1, 5)>>,
     <<taz_row(o, 1, 1, 1, 5)>>}

\* two calls of choose_MAZ_for_TAZ about to be made with the same
\* MAZ_size_terms: one with the rows and random numbers of chooser 7 alone,
\* one with those and the rows and random numbers of another chooser, who
\* comes before (6) or after (8) chooser 7 in the index
InitMazTwice ==
    /\ ctx = EmptyDict
    /\ status = EmptyDict
    /\ predicates = ChainGraph
    /\ last_checkpoint = EmptyDict
    /\ checkpoints = <<>>
    /\ store = EmptyDict
    /\ last = NotRecorded
    /\ open_files = {}
    /\ pc = "idle"
    /\ channels = {}
    /\ \E own \in OwnSamples, o \in {6, 8}, MAZ_size_terms \in MazTables :
          \E other \in OtherSamples(o) :
             \E own_rands \in [1..n_draws(own) -> 0..(Scale - 1)],
                other_rands \in [1..n_draws(other) -> {0, Scale - 1}] :
                od = [fn |-> "choose_MAZ_for_TAZ twice",
                      MAZ_size_terms |-> MAZ_size_terms,
                      alone |-> [taz_sample |-> own, rands |-> own_rands],
                      among |-> IF o < 7
                                THEN [taz_sample |-> other \o own,
                                      rands |-> other_rands \o own_rands]
                                ELSE [taz_sample |-> own \o other,
                                      rands |-> own_rands \o other_rands],
                      result_alone |-> NoneVal, result_among |-> NoneVal]

\* both calls of choose_MAZ_for_TAZ run
ChooseMAZTwice ==
    /\ od.fn = "choose_MAZ_for_TAZ twice"
    /\ pc = "idle"
    /\ od' = [od EXCEPT
                !.result_alone = choose_MAZ_for_TAZ(od.alone.taz_sample,
                                                    od.MAZ_size_terms, od.alone.rands),
                !.result_among = choose_MAZ_for_TAZ(od.among.taz_sample,
                                                    od.MAZ_size_terms, od.among.rands)]
    /\ pc' = "returned"
    /\ UNCHANGED <<ctx, status, predicates, last_checkpoint, checkpoints, store,
                   last, open_files, channels>>

NextMazTwice == ChooseMAZTwice

SpecMazTwice == InitMazTwice /\ [][NextMazTwice]_vars

\* ------------------------------- tour_od.run_od_sample, run_od_simulate

\* the longest chooser index the model hands to run_od_sample
MaxChoosers == 3

\* the tour ids of the choosers
TourIds == 1..3

\* choosers.index.is_monotonic_increasing: no index value is below the one
\* before it
is_monotonic_increasing(index) ==
    \A i \in 1..(Len(index) - 1) : index[i] <= index[i + 1]

\* the index without its i-th value
without(index, i) == SubSeq(index, 1, i - 1) \o SubSeq(index, i + 1, Len(index))

RECURSIVE sort_index(_)
\* choosers.sort_index(): the index values in ascending order
sort_index(index) ==
    IF index = <<>> THEN <<>>
    ELSE LET i == CHOOSE i \in 1..Len(index) :
                     \A j \in 1..Len(index) : index[i] <= index[j]
         IN  <<index[i]>> \o sort_index(without(index, i))

\* choosers that are handed on in the order they came in
unsorted_choosers(index) == index

\* the choosers run_od_sample and run_od_simulate hand to the sampler: sorted
\* when the index is not monotonic
sorted_choosers(index) ==
    IF ~is_monotonic_increasing(index) THEN sort_index(index) ELSE index

\* what the interaction sampler, which is outside this module, does with the
\* choosers: it returns choices for them or raises
SamplerOutcomes(choosers) ==
    {Ok([kind |-> "choices", index |-> choosers]), Error("RuntimeError", {})}

\* the chooser indexes the model draws from
ChooserIndexes ==
    UNION {[1..n -> TourIds] : n \in 0..MaxChoosers}

InitSort ==
    /\ ctx = EmptyDict
    /\ status = EmptyDict
    /\ predicates = ChainGraph
    /\ last_checkpoint = EmptyDict
    /\ checkpoints = <<>>
    /\ store = EmptyDict
    /\ last = NotRecorded
    /\ open_files = {}
    /\ pc = "idle"
    /\ channels = {}
    /\ \E fn \in {"run_od_sample", "run_od_simulate"}, tours \in ChooserIndexes :
          od = [fn |-> fn, tours |-> tours, choosers |-> NoneVal,
                result |-> NoneVal]

\* run_od_sample(whale, spec_segment_name, tours, ...)
RunOdSample ==
    /\ od.fn = "run_od_sample"
    /\ pc = "idle"
    /\ \E r \in SamplerOutcomes(sorted_choosers(od.tours)) :
          od' = [od EXCEPT !.choosers = sorted_choosers(od.tours), !.result = r]
    /\ pc' = "returned"
    /\ UNCHANGED <<ctx, status, predicates, last_checkpoint, checkpoints, store,
                   last, open_files, channels>>

\* run_od_simulate(whale, spec_segment_name, tours, od_sample, ...)
RunOdSimulate ==
    /\ od.fn = "run_od_simulate"
    /\ pc = "idle"
    /\ \E r \in SamplerOutcomes(sorted_choosers(od.tours)) :
          od' = [od EXCEPT !.choosers = sorted_choosers(od.tours), !.result = r]
    /\ pc' = "returned"
    /\ UNCHANGED <<ctx, status, predicates, last_checkpoint, checkpoints, store,
                   last, open_files, channels>>

NextSort == RunOdSample \/ RunOdSimulate

SpecSort == InitSort /\ [][NextSort]_vars

\* ------------------------------------------------- tour_od.run_tour_od

\* the number of tours in the tours table
MaxTours == 2

\* the values of the chooser segment column; "other" is a segment that is
\* not configured
SegmentNames == {"work", "school"}

\* model_settings["SEGMENTS"]
SegmentLists ==
    {<<>>, <<"work">>, <<"school">>, <<"work", "school">>, <<"school", "work">>}

\* the tours table after sort_index(): the segment of each tour id
TourTables == [1..MaxTours -> SegmentNames \cup {"other"}]

\* model_settings["ORIG_FILTER"]
OrigFilters == {"original_MAZ > 0", "external_TAZ > 0", "internal_TAZ > 0"}

\* the names bound in the namespace of the tour_od module when run_tour_od
\* is called; the module itself binds no name `whale`
ModuleGlobals == {{}, {"whale"}}

RECURSIVE segment_choosers(_, _, _)
\* tours[tours[chooser_segment_column] == segment_name], from tour id i on
segment_choosers(tours, segment_name, i) ==
    IF i > MaxTours THEN <<>>
    ELSE (IF tours[i] = segment_name THEN <<i>> ELSE <<>>)
         \o segment_choosers(tours, segment_name, i + 1)

\* SizeTermCalculator.__init__: it reads the global name `whale`
SizeTermCalculator(globals) ==
    IF "whale" \in globals THEN Ok(NoneVal) ELSE Error("NameError", {"whale"})

\* the ORIG_FILTER test after run_od_sample
orig_filter_known(ORIG_FILTER) ==
    ORIG_FILTER = "original_MAZ > 0" \/ ORIG_FILTER = "external_TAZ > 0"

\* the call run_od_simulate(spec_segment_name, choosers, od_sample_df,
\* want_logsums=..., ...) of run_tour_od: the three positional arguments bind
\* whale, spec_segment_name and tours, and od_sample gets no value
run_od_simulate_call(choosers) == Error("TypeError", {"od_sample"})

RECURSIVE segment_loop(_, _, _)
\* the loop over the segments from the i-th on: the choices_list at its end,
\* or the error that ends it
segment_loop(in, i, choices_list) ==
    IF i > Len(in.segments) THEN Ok(choices_list)
    ELSE LET choosers == segment_choosers(in.tours, in.segments[i], 1)
             choices == run_od_simulate_call(choosers)
         IN  IF choosers = <<>> THEN segment_loop(in, i + 1, choices_list)
             ELSE IF ~in.sample_ok THEN Error("RuntimeError", {"run_od_sample"})
             ELSE IF ~orig_filter_known(in.ORIG_FILTER)
             THEN Error("ValueError", {"ORIG_FILTER"})
             ELSE IF ~in.logsums_ok THEN Error("RuntimeError", {"run_od_logsums"})
             ELSE IF choices.kind = "error" THEN choices
             ELSE segment_loop(in, i + 1, Append(choices_list, choices.value))

RECURSIVE concat(_)
\* pd.concat(choices_list)
concat(choices_list) ==
    IF choices_list = <<>> THEN <<>>
    ELSE Head(choices_list) \o concat(Tail(choices_list))

\* run_tour_od(whale, tours, persons, ...): the choices it returns or the
\* error it raises; choices_df is bound only when choices_list is not empty
run_tour_od(in) ==
    LET calc == SizeTermCalculator(in.globals)
        loop == segment_loop(in, 1, <<>>)
    IN  IF calc.kind = "error" THEN calc
        ELSE IF loop.kind = "error" THEN loop
        ELSE IF Len(loop.value) > 0 THEN Ok(concat(loop.value))
        ELSE Error("UnboundLocalError", {"choices_df"})

InitTourOd ==
    /\ ctx = EmptyDict
    /\ status = EmptyDict
    /\ predicates = ChainGraph
    /\ last_checkpoint = EmptyDict
    /\ checkpoints = <<>>
    /\ store = EmptyDict
    /\ last = NotRecorded
    /\ open_files = {}
    /\ pc = "idle"
    /\ channels = {}
    /\ \E segments \in SegmentLists, tours \in TourTables,
          ORIG_FILTER \in OrigFilters, globals \in ModuleGlobals,
          sample_ok \in BOOLEAN, logsums_ok \in BOOLEAN :
          od = [fn |-> "run_tour_od", segments |-> segments, tours |-> tours,
                ORIG_FILTER |-> ORIG_FILTER, globals |-> globals,
                sample_ok |-> sample_ok, logsums_ok |-> logsums_ok,
                result |-> NoneVal]

\* run_tour_od runs
RunTourOd ==
    /\ od.fn = "run_tour_od"
    /\ pc = "idle"
    /\ od' = [od EXCEPT !.result = run_tour_od(od)]
    /\ pc' = IF run_tour_od(od).kind = "ok" THEN "returned" ELSE "raised"
    /\ UNCHANGED <<ctx, status, predicates, last_checkpoint, checkpoints, store,
                   last, open_files, channels>>

NextTourOd == RunTourOd

SpecTourOd == InitTourOd /\ [][NextTourOd]_vars

\* ------------------------------------------------ tour_od.run_od_logsums

\* the number of segments run_od_logsums is called for, one after the other
MaxSegments == 2

\* Random.add_channel(name, df): the channel is registered
add_channel(chs, name) == chs \cup {name}

\* Random.drop_channel(name): the channel is retired
drop_channel(chs, name) == chs \ {name}

\* a run_od_logsums that leaves the channel of the pseudo-trips registered
logsums_keep_channel(chs) == chs

\* whale.get_rn_generator().drop_channel("trips") of run_od_logsums
logsums_drop_channel(chs) == drop_channel(chs, "trips")

\* the channels that are registered when run_od_logsums is first called
EntryChannels == {{}, {"persons"}, {"persons", "trips"}}

InitLogsums ==
    /\ ctx = EmptyDict
    /\ status = EmptyDict
    /\ predicates = ChainGraph
    /\ last_checkpoint = EmptyDict
    /\ checkpoints = <<>>
    /\ store = EmptyDict
    /\ last = NotRecorded
    /\ open_files = {}
    /\ pc = "idle"
    /\ channels \in EntryChannels
    /\ \E compute \in BOOLEAN, logsum_trips \in {FA, FB} :
          od = [fn |-> "run_od_logsums", segment |-> 1, compute |-> compute,
                logsum_trips |-> logsum_trips, read_back |-> FALSE]

\* run_od_logsums is called and builds the choosers; with
\* COMPUTE_TRIP_MODE_CHOICE_LOGSUMS it goes on to build the pseudo-trips
LogsumsCall ==
    /\ od.fn = "run_od_logsums"
    /\ pc = "idle"
    /\ pc' = IF od.compute THEN "add_table" ELSE "compute_logsums"
    /\ od' = [od EXCEPT !.read_back = FALSE]
    /\ UNCHANGED <<ctx, status, predicates, last_checkpoint, checkpoints, store,
                   last, open_files, channels>>

\* whale.add_table("trips", logsum_trips) and register_traceable_table
LogsumsAddTable ==
    /\ pc = "add_table"
    /\ status' = add_table_status(status, "trips", default_salient("trips"))
    /\ ctx' = set(ctx, predicates, "trips", od.logsum_trips)
    /\ pc' = "add_channel"
    /\ UNCHANGED <<predicates, last_checkpoint, checkpoints, store, last,
                   open_files, od, channels>>

\* whale.get_rn_generator().add_channel("trips", logsum_trips)
LogsumsAddChannel ==
    /\ pc = "add_channel"
    /\ channels' = add_channel(channels, "trips")
    /\ pc' = "trip_mode_choice"
    /\ UNCHANGED <<ctx, status, predicates, last_checkpoint, checkpoints, store,
                   last, open_files, od>>

\* orca.run(["trip_mode_choice"]): the step, which is outside this module,
\* returns or raises
LogsumsTripModeChoice ==
    /\ pc = "trip_mode_choice"
    /\ pc' \in {"get_dataframe", "raised"}
    /\ UNCHANGED <<ctx, status, predicates, last_checkpoint, checkpoints, store,
                   last, open_files, od, channels>>

\* trips = whale.get_dataframe("trips") and the merge of the logsums into the
\* choosers
LogsumsReadBack ==
    /\ pc = "get_dataframe"
    /\ IF get_dataframe(ctx, status, "trips").kind = "ok"
       THEN pc' = "drop_channel" /\ od' = [od EXCEPT !.read_back = TRUE]
       ELSE pc' = "raised" /\ od' = od
    /\ UNCHANGED <<ctx, status, predicates, last_checkpoint, checkpoints, store,
                   last, open_files, channels>>

\* drop_channel("trips") and deregister_traceable_table
LogsumsDropChannel ==
    /\ pc = "drop_channel"
    /\ channels' = logsums_drop_channel(channels)
    /\ pc' = "compute_logsums"
    /\ UNCHANGED <<ctx, status, predicates, last_checkpoint, checkpoints, store,
                   last, open_files, od>>

\* logsum.compute_logsums(...), which is outside this module, returns (and
\* run_od_logsums returns od_sample) or raises
LogsumsCompute ==
    /\ pc = "compute_logsums"
    /\ pc' \in {"returned", "raised"}
    /\ UNCHANGED <<ctx, status, predicates, last_checkpoint, checkpoints, store,
                   last, open_files, od, channels>>

\* run_tour_od's loop calls run_od_logsums for the next segment
LogsumsNextSegment ==
    /\ od.fn = "run_od_logsums"
    /\ pc = "returned"
    /\ od.segment < MaxSegments
    /\ \E logsum_trips \in {FA, FB} :
          od' = [od EXCEPT !.segment = od.segment + 1,
                           !.logsum_trips = logsum_trips]
    /\ pc' = "idle"
    /\ UNCHANGED <<ctx, status, predicates, last_checkpoint, checkpoints, store,
                   last, open_files, channels>>

NextLogsums ==
    \/ LogsumsCall
    \/ LogsumsAddTable
    \/ LogsumsAddChannel
    \/ LogsumsTripModeChoice
    \/ LogsumsReadBack
    \/ LogsumsDropChannel
    \/ LogsumsCompute
    \/ LogsumsNextSegment

SpecLogsums == InitLogsums /\ [][NextLogsums]_vars

\* ------------------------- tour_od._create_od_alts_from_dest_size_terms

\* A str is a sequence of characters here, so that joining and splitting
\* are computed on the characters.
Digits == <<"0", "1", "2", "3", "4", "5", "6", "7", "8", "9">>

RECURSIVE astype_str(_)
\* .astype(str) of a zone id, a natural number: its decimal digits
astype_str(n) ==
    IF n < 10 THEN <<Digits[n + 1]>>
    ELSE astype_str(n \div 10) \o <<Digits[(n % 10) + 1]>>

RECURSIVE astype_int(_)
\* .astype(int) of a str of decimal digits
astype_int(str) ==
    IF str = <<>> THEN 0
    ELSE astype_int(SubSeq(str, 1, Len(str) - 1)) * 10
         + ((CHOOSE k \in 1..10 : Digits[k] = str[Len(str)]) - 1)

RECURSIVE str_split(_, _)
\* .str.split(sep): the pieces of the str between the separators
str_split(str, sep) ==
    IF \A i \in 1..Len(str) : str[i] # sep THEN <<str>>
    ELSE LET i == CHOOSE i \in 1..Len(str) :
                     str[i] = sep /\ \A k \in 1..(i - 1) : str[k] # sep
         IN  <<SubSeq(str, 1, i - 1)>> \o str_split(SubSeq(str, i + 1, Len(str)), sep)

\* create_od_id_col, and the same expression in
\* _create_od_alts_from_dest_size_terms:
\* df[origin_col].astype(str) + "_" + df[destination_col].astype(str)
create_od_id_col(origin, destination) ==
    astype_str(origin) \o <<"_">> \o astype_str(destination)

\* _get_od_cols_from_od_id for one row: the first and the second piece of the
\* id as integers
get_od_cols_from_od_id(od_id) ==
    [origin |-> astype_int(str_split(od_id, "_")[1]),
     destination |-> astype_int(str_split(od_id, "_")[2])]

\* origins = land_use.query(origin_filter), or land_use without a filter;
\* the filter of the model is "external_TAZ > 0"
filter_origins(land_use, origin_filter) ==
    IF origin_filter = NoneVal THEN land_use
    ELSE SelectSeq(land_use, LAMBDA z : z.external_TAZ > 0)

\* origins that are repeated one after the other, like the destinations
origins_repeated(origins, n) ==
    [k \in 1..(Len(origins) * n) |-> origins[((k - 1) \div n) + 1].zone_id]

\* list(origins.index.values) * od_alts.index.nunique(): the list of the
\* origins, n times over
origins_tiled(origins, n) ==
    [k \in 1..(Len(origins) * n) |-> origins[((k - 1) % Len(origins)) + 1].zone_id]

\* _create_od_alts_from_dest_size_terms: the rows of size_terms_df, each
\* repeated len(origins) times, with the origin column, and the od id as
\* index
create_od_alts_from_dest_size_terms(size_terms_df, land_use, origin_filter) ==
    LET origins == filter_origins(land_use, origin_filter)
        n_repeat == Len(origins)
        od_alts == [k \in 1..(Len(size_terms_df) * n_repeat) |->
                       size_terms_df[((k - 1) \div n_repeat) + 1]]
        origin == origins_tiled(origins, Len(size_terms_df))
    IN  [k \in 1..Len(od_alts) |->
            [od_id |-> create_od_id_col(origin[k], od_alts[k].zone_id),
             origin |-> origin[k],
             destination |-> od_alts[k].zone_id,
             size_term |-> od_alts[k].size_term]]

\* the size terms of the destinations, indexed by zone id (a unique index)
DestSizeTerms ==
    {<<>>}
    \cup {<<[zone_id |-> z, size_term |-> a]>> : z \in {1, 12}, a \in {0, 3}}
    \cup {<<[zone_id |-> 1, size_term |-> a], [zone_id |-> 12, size_term |-> b]>> :
             a \in {0, 3}, b \in {0, 3}}

\* the land_use table, indexed by zone id, with the column of the filter
LandUses ==
    {<<>>}
    \cup {<<[zone_id |-> 1, external_TAZ |-> e]>> : e \in {0, 1}}
    \cup {<<[zone_id |-> 1, external_TAZ |-> e], [zone_id |-> 21, external_TAZ |-> f]>> :
             e \in {0, 1}, f \in {0, 1}}

InitOdAlts ==
    /\ ctx = EmptyDict
    /\ status = EmptyDict
    /\ predicates = ChainGraph
    /\ last_checkpoint = EmptyDict
    /\ checkpoints = <<>>
    /\ store = EmptyDict
    /\ last = NotRecorded
    /\ open_files = {}
    /\ pc = "idle"
    /\ channels = {}
    /\ \E size_terms_df \in DestSizeTerms, land_use \in LandUses,
          origin_filter \in {NoneVal, [kind |-> "str", s |-> "external_TAZ > 0"]} :
          od = [fn |-> "_create_od_alts_from_dest_size_terms",
                size_terms_df |-> size_terms_df, land_use |-> land_use,
                origin_filter |-> origin_filter,
                od_alts |-> NoneVal, od_cols |-> NoneVal]

\* _create_od_alts_from_dest_size_terms runs
CreateOdAlts ==
    /\ od.fn = "_create_od_alts_from_dest_size_terms"
    /\ pc = "idle"
    /\ od' = [od EXCEPT !.od_alts =
                 create_od_alts_from_dest_size_terms(od.size_terms_df, od.land_use,
                                                     od.origin_filter)]
    /\ pc' = "od_alts"
    /\ UNCHANGED <<ctx, status, predicates, last_checkpoint, checkpoints, store,
                   last, open_files, channels>>

\* _get_od_cols_from_od_id runs on the ids of the alternatives
GetOdCols ==
    /\ od.fn = "_create_od_alts_from_dest_size_terms"
    /\ pc = "od_alts"
    /\ od' = [od EXCEPT !.od_cols =
                 [k \in 1..Len(od.od_alts) |-> get_od_cols_from_od_id(od.od_alts[k].od_id)]]
    /\ pc' = "returned"
    /\ UNCHANGED <<ctx, status, predicates, last_checkpoint, checkpoints, store,
                   last, open_files, channels>>

NextOdAlts == CreateOdAlts \/ GetOdCols

SpecOdAlts == InitOdAlts /\ [][NextOdAlts]_vars

\* ------------------------------------------------------------------ claims

\* get_table in the current state
GetTableNow(name, cn) ==
    get_table(ctx, status, last_checkpoint, checkpoints, store, name, cn)

\* get_table in the state after a step
GetTableNext(name, cn) ==
    get_table(ctx', status', last_checkpoint', checkpoints', store', name, cn)

\* checkpoint i holds table name: its record maps the name to a stored version
Holds(cps, i, name) ==
    name \in DOMAIN cps[i].tables /\ cps[i].tables[name] # Dropped

\* table name was written to the store at checkpoint i
WrittenAt(cps, i, name) ==
    name \in DOMAIN cps[i].tables /\ cps[i].tables[name] = cps[i].checkpoint_name

\* the checkpoint names get_table is asked for: the recorded ones and one
\* that is never recorded
QueryNames == {CkptNames[i] : i \in 1..(MaxCkpt + 1)}

\* C1: after set(K, v) returns, every key predicated on K, directly or
\* transitively, is absent from the context, whatever was cached before.
C1_SetDropsAllDependents ==
    [][\A K \in {"land_use", "accessibility"} :
          Set(K, FA) => \A d \in Dependents(predicates, K) : d \notin DOMAIN ctx']_vars

\* C2: when checkpoint C2 is written with table T replaced since it was
\* written at an earlier checkpoint C1, get_table(T, C1) returns the version
\* stored at C1 and get_table(T, C2) returns the replacing value.
C2_CheckpointRoundTrip ==
    [][Len(checkpoints') = Len(checkpoints) + 1 =>
          \A T \in TableKeys : \A i \in 1..Len(checkpoints) :
              (WrittenAt(checkpoints, i, T) /\ T \in uncheckpointed_table_names(status))
              => /\ GetTableNext(T, At(checkpoints[i].checkpoint_name))
                      = Ok(store[pipeline_table_key(T, checkpoints[i].checkpoint_name)])
                 /\ GetTableNext(T, At(checkpoints'[Len(checkpoints')].checkpoint_name))
                      = Ok(ctx[T])]_vars

\* C2 witness: land_use was written at c1 as FA, replaced by FB and written
\* at c2; get_table gives FA for c1 and FB for c2.
C2_Witness ==
    /\ Len(checkpoints) = 2
    /\ WrittenAt(checkpoints, 1, "land_use")
    /\ WrittenAt(checkpoints, 2, "land_use")
    /\ GetTableNow("land_use", At("c1")) = Ok(FA)
    /\ GetTableNow("land_use", At("c2")) = Ok(FB)

\* C3: in every reachable state, get_table(T, C) for a checkpoint C that
\* holds T returns the most recently checkpointed version of T at or before C.
C3_GetTableReturnsCheckpointedVersion ==
    \A T \in TableKeys : \A i \in 1..Len(checkpoints) :
        Holds(checkpoints, i, T)
        => GetTableNow(T, At(checkpoints[i].checkpoint_name))
             = Ok(read_df(store, T, checkpoints[i].tables[T]))

\* C is the name of a checkpoint of the log
Recorded(C) == \E i \in 1..Len(checkpoints) : checkpoints[i].checkpoint_name = C

\* the three cases of C4: C is no recorded checkpoint, T has no stored version
\* under C, T is a registered table that was never checkpointed
C4_Case(T, C) ==
    \/ ~Recorded(C)
    \/ \E i \in 1..Len(checkpoints) :
          checkpoints[i].checkpoint_name = C /\ ~Holds(checkpoints, i, T)
    \/ (is_table(status, T) /\ T \notin DOMAIN last_checkpoint)

\* C4 as claimed: in each of the three cases get_table(T, C) raises a
\* RuntimeError whose message names both the table and the checkpoint.
C4_ErrorNamesTableAndCheckpoint ==
    \A T \in TableKeys, C \in QueryNames :
        C4_Case(T, C)
        => LET r == GetTableNow(T, At(C))
           IN  r.kind = "error" /\ r.exc = "RuntimeError" /\ {T, C} \subseteq r.names

\* C4 amended: in each of the three cases get_table(T, C) raises a
\* RuntimeError whose message names the checkpoint; it names the table too
\* unless C is no recorded checkpoint and T is not an un-checkpointed
\* registered table.
C4_ErrorNamesCheckpoint ==
    \A T \in TableKeys, C \in QueryNames :
        C4_Case(T, C)
        => LET r == GetTableNow(T, At(C))
           IN  /\ r.kind = "error" /\ r.exc = "RuntimeError" /\ C \in r.names
               /\ (Recorded(C)
                   \/ (is_table(status, T) /\ T \notin DOMAIN last_checkpoint))
                  => T \in r.names

\* C4 witness: land_use was written at c1 and dropped before c2 was written;
\* asking for it at c2 is an error naming both, asking at the unrecorded c3
\* names the checkpoint only.
C4_Witness ==
    /\ Len(checkpoints) = 2
    /\ Holds(checkpoints, 1, "land_use")
    /\ ~Holds(checkpoints, 2, "land_use")
    /\ GetTableNow("land_use", At("c2")) = Error("RuntimeError", {"land_use", "c2"})
    /\ GetTableNow("land_use", At("c3")) = Error("RuntimeError", {"c3"})

\* the call get(key, default) for a key that is absent from the context or
\* stored as None, is no filesystem attribute and has no loader
GetsMissing(key, default) ==
    /\ Get(key, default)
    /\ ctx_get(ctx, key) = NoneVal
    /\ key \notin FsAttrs
    /\ key \notin LOADABLE_TABLES \cup LOADABLE_OBJECTS

\* C5 as claimed: State.get(key) without a default, for such a key, raises
\* an error naming the key; with a default it returns the default; neither
\* call changes the context (nor anything else of the state).
C5_GetReturnsDefault ==
    [][\A key \in GetKeys, default \in Defaults :
          GetsMissing(key, default)
          => /\ default = NO_DEFAULT
                => (last'.out.kind = "error" /\ key \in last'.out.names)
             /\ default # NO_DEFAULT => last'.out = Ok(default)
             /\ UNCHANGED <<ctx, status, predicates, last_checkpoint, checkpoints, store>>]_vars

\* C5 amended: as claimed for a default that is no string with a format
\* expression; a string default "{token}" comes back formatted against the
\* context, not as it was given, and raises an error naming the token when
\* the token is no key of the context.
C5_GetReturnsFormattedDefault ==
    [][\A key \in GetKeys, default \in Defaults :
          GetsMissing(key, default)
          => /\ default = NO_DEFAULT
                => (last'.out.kind = "error" /\ key \in last'.out.names)
             /\ default \in {DefaultVal, NoneVal} => last'.out = Ok(default)
             /\ default = DefaultFmt
                => IF "step_args" \in DOMAIN ctx
                   THEN last'.out.kind = "ok" /\ last'.out.value # default
                   ELSE last'.out.kind = "error" /\ "step_args" \in last'.out.names
             /\ UNCHANGED <<ctx, status, predicates, last_checkpoint, checkpoints, store>>]_vars

\* C5 witness: land_use is not in the context, and get("land_use",
\* "{step_args}") has returned the formatted string.
C5_Witness ==
    /\ last.op = "get"
    /\ last.key = "land_use"
    /\ last.args = <<DefaultFmt>>
    /\ "land_use" \notin DOMAIN ctx
    /\ "step_args" \in DOMAIN ctx
    /\ last.out.kind = "ok"
    /\ last.out.value # DefaultFmt

\* C6: add_table(name, content) with salient unspecified: for a name not in
\* _TEMP_NAMES the registry holds name with status True, is_table(name)
\* holds, uncheckpointed_table_names() lists it and the context maps name to
\* content; for a name in _TEMP_NAMES the context maps name to content and the
\* registry is unchanged.
C6_AddTableRegisters ==
    [][\A name \in TableKeys : \A content \in ContentsOf(name) :
          AddTable(name, content)
          => /\ name \in DOMAIN ctx' /\ ctx'[name] = content
             /\ IF name \notin TEMP_NAMES
                THEN /\ is_table(status', name)
                     /\ status'[name] = TRUE
                     /\ name \in uncheckpointed_table_names(status')
                ELSE status' = status]_vars

\* C6 witness: land_use was checkpointed as FA at c1 and then added again as
\* FB: it is registered, edited, and in the context.
C6_Witness ==
    /\ "land_use" \in DOMAIN last_checkpoint
    /\ last_checkpoint["land_use"] = "c1"
    /\ store[pipeline_table_key("land_use", "c1")] = FA
    /\ is_table(status, "land_use")
    /\ "land_use" \in uncheckpointed_table_names(status)
    /\ "land_use" \in DOMAIN ctx
    /\ ctx["land_use"] = FB
    /\ "trips_merged" \in DOMAIN ctx
    /\ ~is_table(status, "trips_merged")

\* what C10 says of the checkpoints after drop_table(T): no record is altered
\* and every checkpoint that holds T still gives the version stored for it
C10_CheckpointsKept(T) ==
    /\ checkpoints' = checkpoints
    /\ store' = store
    /\ \A i \in 1..Len(checkpoints) :
          Holds(checkpoints, i, T)
          => GetTableNext(T, At(checkpoints[i].checkpoint_name))
               = Ok(read_df(store, T, checkpoints[i].tables[T]))

\* C10 as claimed: drop_table(T) removes T from the context and from the
\* registry, marks T as dropped in last_checkpoint when it is there, and
\* leaves the checkpoint records and what get_table reads from them alone.
C10_DropTableRemoves ==
    [][\A T \in TableKeys :
          DropTable(T)
          => /\ T \notin DOMAIN ctx'
             /\ T \notin DOMAIN status'
             /\ T \in DOMAIN last_checkpoint => last_checkpoint'[T] = Dropped
             /\ C10_CheckpointsKept(T)]_vars

\* C10 amended: drop_table(T) removes T from the context and the registry
\* when T is a registered table, and leaves the context as it is when T is
\* not registered (a temp table, a key written with set); the rest as claimed.
C10_DropTableRemovesRegistered ==
    [][\A T \in TableKeys :
          DropTable(T)
          => /\ IF is_table(status, T)
                THEN T \notin DOMAIN ctx' /\ \A k \in DOMAIN ctx \ {T} :
                        k \in DOMAIN ctx' /\ ctx'[k] = ctx[k]
                ELSE ctx' = ctx
             /\ T \notin DOMAIN status'
             /\ T \in DOMAIN last_checkpoint => last_checkpoint'[T] = Dropped
             /\ \A k \in DOMAIN last_checkpoint \ {T} :
                   last_checkpoint'[k] = last_checkpoint[k]
             /\ C10_CheckpointsKept(T)]_vars

\* C10 witness: land_use was written at c1 and then dropped: it is gone from
\* the context and the registry, marked dropped, and get_table still reads
\* the version of c1.
C10_Witness ==
    /\ last.op = "drop_table"
    /\ last.key = "land_use"
    /\ Len(checkpoints) >= 1
    /\ WrittenAt(checkpoints, 1, "land_use")
    /\ "land_use" \notin DOMAIN ctx
    /\ ~is_table(status, "land_use")
    /\ last_checkpoint["land_use"] = Dropped
    /\ GetTableNow("land_use", At("c1")) = Ok(store[pipeline_table_key("land_use", "c1")])

\* the call extend_table(name, df, axis) on a registered table whose frame
\* is in the context
ExtendsRegistered(name, df, axis) ==
    /\ ExtendTable(name, df, axis)
    /\ is_table(status, name)
    /\ name \in DOMAIN ctx
    /\ IsFrame(ctx[name])

\* the two frames have an index label in common
Overlap(t, d) == \E i \in 1..Len(t.index) : \E j \in 1..Len(d.index) : t.index[i] = d.index[j]

\* the columns of d that t has not, in d's order
Added(t, d) == FilterSeq(d.columns, {c \in SeqSet(d.columns) : ~InSeq(c, t.columns)})

\* C7: extend_table with axis=0 on a registered table whose index overlaps
\* that of df fails its assertion; the stored table, the registry and every
\* other context key are unchanged.
C7_OverlapFails ==
    [][\A name \in FrameKeys, df \in AllFrames :
          (ExtendsRegistered(name, df, 0) /\ Overlap(ctx[name], df))
          => /\ last'.out = Error("AssertionError", {})
             /\ UNCHANGED <<ctx, status, predicates, last_checkpoint, checkpoints, store>>]_vars

\* C7 witness: the last call was extend_table with axis=0 and a df sharing an
\* index label with the registered table, and it failed the assertion.
C7_Witness ==
    /\ last.op = "extend_table"
    /\ last.args[2] = 0
    /\ is_table(status, last.key)
    /\ last.key \in DOMAIN ctx
    /\ Overlap(ctx[last.key], last.args[1])
    /\ last.out = Error("AssertionError", {})

\* what C8 says of the table t extended with df into r, but for the values of
\* the existing rows: the rows of t then those of df, the index set the
\* union, the columns of t first and in their order, the values of df in the
\* new rows, and "" in the new rows of every string column of t that df lacks
C8_Shape(t, df, r) ==
    /\ r.index = t.index \o df.index
    /\ SeqSet(r.index) = SeqSet(t.index) \cup SeqSet(df.index)
    /\ r.columns = t.columns \o Added(t, df)
    /\ \A i \in SeqSet(df.index) : \A c \in SeqSet(df.columns) :
          r.cell[<<i, c>>] = df.cell[<<i, c>>]
    /\ \A c \in SeqSet(t.columns) :
          (t.dtype[c] = "O" /\ ~InSeq(c, df.columns))
          => \A i \in SeqSet(df.index) : r.cell[<<i, c>>] = EmptyStr

\* C8 as claimed: extend_table with axis=0 and a disjoint index keeps every
\* value of the existing rows, appends the new rows, keeps the existing
\* columns' order and puts "" in the new rows of the string columns df lacks.
C8_AppendKeepsExistingRows ==
    [][\A name \in FrameKeys, df \in AllFrames :
          (ExtendsRegistered(name, df, 0) /\ ~Overlap(ctx[name], df))
          => /\ last'.out.kind = "ok"
             /\ C8_Shape(ctx[name], df, ctx'[name])
             /\ \A i \in SeqSet(ctx[name].index) : \A c \in SeqSet(ctx[name].columns) :
                   ctx'[name].cell[<<i, c>>] = ctx[name].cell[<<i, c>>]]_vars

\* C8 amended: as claimed, except that a null in an existing row of a string
\* column that df lacks becomes "" too; every other existing value is kept.
C8_AppendFillsStringNulls ==
    [][\A name \in FrameKeys, df \in AllFrames :
          (ExtendsRegistered(name, df, 0) /\ ~Overlap(ctx[name], df))
          => /\ last'.out.kind = "ok"
             /\ C8_Shape(ctx[name], df, ctx'[name])
             /\ \A i \in SeqSet(ctx[name].index) : \A c \in SeqSet(ctx[name].columns) :
                   ctx'[name].cell[<<i, c>>] =
                      IF /\ ctx[name].dtype[c] = "O"
                         /\ ~InSeq(c, df.columns)
                         /\ ctx[name].cell[<<i, c>>] = NaN
                      THEN EmptyStr
                      ELSE ctx[name].cell[<<i, c>>]]_vars

\* C8 witness: land_use, rows 2 and 1 with a null in the string column s of
\* row 2, was extended with FE (row 3, no column s): rows 2, 1, 3, and s is
\* "" in row 3 and in row 2.
C8_Witness ==
    /\ last.op = "extend_table"
    /\ last.key = "land_use"
    /\ last.args = <<FE, 0>>
    /\ last.out.kind = "ok"
    /\ ctx["land_use"].index = <<2, 1, 3>>
    /\ ctx["land_use"].columns = <<"a", "s">>
    /\ ctx["land_use"].cell[<<3, "s">>] = EmptyStr
    /\ ctx["land_use"].cell[<<2, "s">>] = EmptyStr
    /\ ctx["land_use"].cell[<<1, "s">>] = "x"

\* C9: extend_table with axis=1 on a registered table fails its assertion
\* and stores nothing unless df has the table's index; with the same index
\* it adds the columns the table has not, and every value of a column the
\* table had is kept, whatever df holds under that column name.
C9_AddsOnlyNewColumns ==
    [][\A name \in FrameKeys, df \in AllFrames :
          ExtendsRegistered(name, df, 1)
          => IF ctx[name].index # df.index
             THEN /\ last'.out = Error("AssertionError", {})
                  /\ UNCHANGED <<ctx, status, predicates, last_checkpoint, checkpoints, store>>
             ELSE /\ last'.out.kind = "ok"
                  /\ ctx'[name].index = ctx[name].index
                  /\ ctx'[name].columns = ctx[name].columns \o Added(ctx[name], df)
                  /\ \A i \in SeqSet(df.index) :
                        /\ \A c \in SeqSet(ctx[name].columns) :
                              ctx'[name].cell[<<i, c>>] = ctx[name].cell[<<i, c>>]
                        /\ \A c \in SeqSet(Added(ctx[name], df)) :
                              ctx'[name].cell[<<i, c>>] = df.cell[<<i, c>>]]_vars

\* C9 witness: FA (a = 10) was extended along axis 1 with FD (a = 99, b = 7):
\* column b is added and a is still 10.
C9_Witness ==
    /\ last.op = "extend_table"
    /\ last.key = "land_use"
    /\ last.args = <<FD, 1>>
    /\ last.out.kind = "ok"
    /\ ctx["land_use"].columns = <<"a", "s", "b">>
    /\ ctx["land_use"].cell[<<1, "a">>] = "10"
    /\ ctx["land_use"].cell[<<1, "b">>] = "7"

\* choose_MAZ_for_TAZ has run
MazDone == od.fn = "choose_MAZ_for_TAZ" /\ pc = "returned"

\* the MAZs of a TAZ, read off MAZ_size_terms
MazOf(M, taz) == {k \in 1..Len(M) : M[k].dest_TAZ = taz}

\* the sum of the size terms of the MAZs of a TAZ
RECURSIVE TazSize(_, _)
TazSize(M, taz) ==
    IF M = <<>> THEN 0
    ELSE (IF Head(M).dest_TAZ = taz THEN Head(M).size_term ELSE 0) + TazSize(Tail(M), taz)

\* the conditional probability of the MAZ of row k of MAZ_size_terms: its
\* size term over the sum of the size terms of the MAZs of its TAZ
CondProb(M, k) == (M[k].size_term * Scale) \div TazSize(M, M[k].dest_TAZ)

\* C11: with strictly positive size terms and draws in [0, 1), the position
\* chosen for every expanded TAZ draw is below the number of real MAZs of the
\* TAZ: the assertion holds and the chosen MAZ is a MAZ of that TAZ.
C11_NeverPadding ==
    MazDone
    => /\ od.result.kind = "ok"
       /\ \A i \in 1..Len(od.result.value.taz_choices) :
             LET d == od.result.value.taz_choices[i]
             IN  /\ d.position < Cardinality(MazOf(od.MAZ_size_terms, d.dest_TAZ))
                 /\ \E k \in MazOf(od.MAZ_size_terms, d.dest_TAZ) :
                       od.MAZ_size_terms[k].zone_id = d.dest_MAZ

\* C11 witness: a draw of TAZ 2, which has one MAZ and one filler slot, with
\* the largest uniform draw, has chosen position 0, MAZ 21.
C11_Witness ==
    /\ MazDone
    /\ od.result.kind = "ok"
    /\ \E i \in 1..Len(od.result.value.taz_choices) :
          /\ od.result.value.taz_choices[i].dest_TAZ = 2
          /\ od.rands[i] = Scale - 1
          /\ od.result.value.taz_choices[i].position = 0
          /\ od.result.value.taz_choices[i].dest_MAZ = 21

\* C12: the probability recorded for a chosen MAZ is the probability of the
\* TAZ draw times the MAZ's size term over the sum of the size terms of the
\* MAZs of the same TAZ.
C12_JointProbability ==
    MazDone /\ od.result.kind = "ok"
    => \A g \in 1..Len(od.result.value.taz_choices_w_maz) :
          LET row == od.result.value.taz_choices_w_maz[g]
          IN  \E k \in 1..Len(od.MAZ_size_terms), t \in 1..Len(od.taz_sample) :
                 /\ od.MAZ_size_terms[k].zone_id = row.dest_MAZ
                 /\ od.taz_sample[t].chooser = row.chooser
                 /\ od.taz_sample[t].key = row.key
                 /\ od.taz_sample[t].dest_TAZ = od.MAZ_size_terms[k].dest_TAZ
                 /\ row.prob = od.taz_sample[t].prob * CondProb(od.MAZ_size_terms, k)

\* C12 witness: MAZ 12 with size term 2 beside MAZ 11 with size term 1 was
\* chosen for a TAZ draw of probability 2/Scale: the recorded probability is
\* 2/Scale times 2/3.
C12_Witness ==
    /\ MazDone
    /\ od.result.kind = "ok"
    /\ od.MAZ_size_terms[1].size_term = 1
    /\ od.MAZ_size_terms[2].size_term = 2
    /\ \E g \in 1..Len(od.result.value.taz_choices_w_maz) :
          /\ od.result.value.taz_choices_w_maz[g].dest_MAZ = 12
          /\ od.result.value.taz_choices_w_maz[g].prob = 2 * ((2 * Scale) \div 3)

C18_Cleared ==
    /\ checkpoints' = <<>>
    /\ last_checkpoint' = EmptyDict
    /\ open_files' = {}
    /\ status' = EmptyDict

\* C18 as claimed: after init_state the checkpoint history, open_files and
\* the table registry are empty, and no table value that was in the context
\* is still there.
C18_InitStateClearsTables ==
    [][InitState
       => /\ C18_Cleared
          /\ \A T \in TableKeys : T \in DOMAIN ctx => T \notin DOMAIN ctx']_vars

\* C18 amended: after init_state the checkpoint history, open_files and the
\* table registry are empty; the context keeps every value it held, the
\* tables included, which are no longer registered.
C18_InitStateKeepsContext ==
    [][InitState
       => /\ C18_Cleared
          /\ ctx' = ctx
          /\ \A T \in TableKeys : ~is_table(status', T)]_vars

\* C18 witness: init_state has run on a State with a checkpointed land_use
\* and an open file: nothing is registered, checkpointed or open, and
\* land_use is still in the context.
C18_Witness ==
    /\ last.op = "init_state"
    /\ checkpoints = <<>>
    /\ last_checkpoint = EmptyDict
    /\ open_files = {}
    /\ status = EmptyDict
    /\ "land_use" \in DOMAIN ctx
    /\ \E cn \in SeqSet(CkptNames) : pipeline_table_key("land_use", cn) \in DOMAIN store

\* C19: with land_use in the context, get_dataframe(T) of a table T that has
\* a loader and is not in the context (in SpecRegen a table that was loaded
\* can only have left the context by the cascade of a write to land_use)
\* runs the loader again: it returns a table and T is in the context again,
\* for a salient T as for a temporary one.
C19_CascadedTableRegenerates ==
    [][\A T \in LOADABLE_TABLES :
          (/\ GetDataframe(T)
           /\ T \notin DOMAIN ctx
           /\ "land_use" \in DOMAIN ctx /\ IsFrame(ctx["land_use"]))
          => /\ last'.out.kind = "ok"
             /\ T \in DOMAIN ctx' /\ IsFrame(ctx'[T])]_vars

\* the state C19 fails in: the salient accessibility is registered but no
\* longer in the context, and get_dataframe has raised for it
C19_Stuck ==
    /\ last.op = "get_dataframe" /\ last.key = "accessibility"
    /\ last.out.kind = "error"
    /\ is_table(status, "accessibility")
    /\ "accessibility" \notin DOMAIN ctx
    /\ "land_use" \in DOMAIN ctx

\* run_od_sample or run_od_simulate has run on choosers whose index was not
\* in ascending order
C16_Case ==
    /\ od.fn \in {"run_od_sample", "run_od_simulate"}
    /\ pc = "returned"
    /\ \E i \in 1..(Len(od.tours) - 1) : od.tours[i] > od.tours[i + 1]

\* C16 as claimed: run_od_sample and run_od_simulate called with a chooser
\* index that is not monotonic increasing fail with an assertion error
\* instead of sorting.
C16_NonMonotonicFails ==
    C16_Case => od.result.kind = "error" /\ od.result.exc = "AssertionError"

\* C16 amended: run_od_sample and run_od_simulate called with a chooser
\* index that is not monotonic increasing sort the choosers: the sampler
\* gets the same index values in ascending order, and no assertion error is
\* raised.
C16_NonMonotonicIsSorted ==
    C16_Case
    => /\ \A i \in 1..(Len(od.choosers) - 1) : od.choosers[i] <= od.choosers[i + 1]
       /\ Len(od.choosers) = Len(od.tours)
       /\ \A v \in TourIds :
             Cardinality({i \in 1..Len(od.choosers) : od.choosers[i] = v})
                = Cardinality({i \in 1..Len(od.tours) : od.tours[i] = v})
       /\ ~(od.result.kind = "error" /\ od.result.exc = "AssertionError")

\* C16 witness: run_od_simulate got the tours 3, 1, 2 and the sampler
\* returned choices for 1, 2, 3.
C16_Witness ==
    /\ od.fn = "run_od_simulate"
    /\ pc = "returned"
    /\ od.tours = <<3, 1, 2>>
    /\ od.choosers = <<1, 2, 3>>
    /\ od.result = Ok([kind |-> "choices", index |-> <<1, 2, 3>>])

\* run_tour_od has ended
TourOdDone == od.fn = "run_tour_od" /\ pc \in {"returned", "raised"}

RECURSIVE ChoicesInOrder(_, _, _)
\* the choosers of the segments from the i-th on, segment after segment in the
\* order of the list, each segment's choosers by ascending tour id
ChoicesInOrder(segments, tours, i) ==
    IF i > Len(segments) THEN <<>>
    ELSE SelectSeq([k \in 1..MaxTours |-> k], LAMBDA k : tours[k] = segments[i])
         \o ChoicesInOrder(segments, tours, i + 1)

\* C14: run_tour_od returns, for every assignment of choosers to segments,
\* the choices of the segments concatenated in list order; segments without
\* choosers add nothing and raise nothing, also when no segment has choosers.
\* The run is one where the global `whale` is bound and neither the sampling
\* nor the logsums raise, and ORIG_FILTER is a known one.
C14_ChoicesInSegmentOrder ==
    (/\ TourOdDone /\ "whale" \in od.globals
     /\ od.sample_ok /\ od.logsums_ok /\ orig_filter_known(od.ORIG_FILTER))
    => od.result = Ok(ChoicesInOrder(od.segments, od.tours, 1))

\* C15: with an ORIG_FILTER that is neither "original_MAZ > 0" nor
\* "external_TAZ > 0", run_tour_od ends in the configuration error (the
\* ValueError about ORIG_FILTER) and returns no choices. The run is one
\* where the global `whale` is bound and the sampling does not raise.
C15_UnknownOrigFilterIsFatal ==
    (/\ TourOdDone /\ "whale" \in od.globals /\ od.sample_ok
     /\ od.ORIG_FILTER \notin {"original_MAZ > 0", "external_TAZ > 0"})
    => od.result = Error("ValueError", {"ORIG_FILTER"})

\* C20: in run_od_logsums with COMPUTE_TRIP_MODE_CHOICE_LOGSUMS, the channel
\* "trips" becomes registered only by the step after the pseudo-trips table
\* was registered, it is registered when trip_mode_choice runs and while the
\* logsums are read back, it is retired only after they were read back, and
\* it is not registered when run_od_logsums returns.
C20_TripsChannelLifetime ==
    [][od.compute
       => /\ ("trips" \notin channels /\ "trips" \in channels')
                => /\ pc = "add_channel" /\ pc' = "trip_mode_choice"
                   /\ is_table(status, "trips") /\ "trips" \in DOMAIN ctx
          /\ pc' \in {"trip_mode_choice", "get_dataframe", "drop_channel"}
                => "trips" \in channels'
          /\ ("trips" \in channels /\ "trips" \notin channels')
                => pc = "drop_channel" /\ od.read_back
          /\ pc' = "returned" => "trips" \notin channels']_vars

\* C20 witness: run_od_logsums has returned for the second segment, after
\* reading the logsums back, and the channel "trips" is not registered.
C20_Witness ==
    /\ od.fn = "run_od_logsums" /\ od.compute
    /\ od.segment = 2
    /\ pc = "returned"
    /\ od.read_back
    /\ is_table(status, "trips")
    /\ "trips" \notin channels

\* the sum of a column of the rows of one chooser
RECURSIVE ChooserSum(_, _, _)
ChooserSum(rows, c, n) ==
    IF n = 0 THEN 0
    ELSE ChooserSum(rows, c, n - 1) + (IF rows[n].chooser = c THEN rows[n].pick_count ELSE 0)

\* C25: choose_MAZ_for_TAZ conserves picks: every input row is expanded into
\* pick_count draws, every draw chooses one MAZ, and for every chooser the
\* pick_counts of the returned rows add up to the pick_counts of the
\* chooser's input rows.
C25_PicksConserved ==
    MazDone /\ od.result.kind = "ok"
    => LET draws == od.result.value.taz_choices
           rows == od.result.value.taz_choices_w_maz
       IN  /\ \A t \in 1..Len(od.taz_sample) :
                 Cardinality({i \in 1..Len(draws) :
                                 /\ i > n_draws(SubSeq(od.taz_sample, 1, t - 1))
                                 /\ i <= n_draws(SubSeq(od.taz_sample, 1, t))
                                 /\ draws[i].chooser = od.taz_sample[t].chooser
                                 /\ draws[i].dest_TAZ = od.taz_sample[t].dest_TAZ
                                 /\ draws[i].key = od.taz_sample[t].key})
                    = od.taz_sample[t].pick_count
           /\ \A c \in {od.taz_sample[t].chooser : t \in 1..Len(od.taz_sample)} :
                 ChooserSum(rows, c, Len(rows))
                    = ChooserSum(od.taz_sample, c, Len(od.taz_sample))

\* C25 witness: one TAZ draw with pick_count 2 went to two MAZs: two rows
\* with pick_count 1 each.
C25_Witness ==
    /\ MazDone
    /\ od.result.kind = "ok"
    /\ Len(od.taz_sample) = 1
    /\ od.taz_sample[1].pick_count = 2
    /\ Len(od.result.value.taz_choices_w_maz) = 2
    /\ od.result.value.taz_choices_w_maz[1].pick_count = 1
    /\ od.result.value.taz_choices_w_maz[2].pick_count = 1

\* the parent TAZs of a MAZ, read off MAZ_size_terms
ParentsOf(M, zone_id) == {M[k].dest_TAZ : k \in {k \in 1..Len(M) : M[k].zone_id = zone_id}}

\* C26: the MAZ chosen for an expanded draw is a MAZ of the TAZ of that very
\* draw, and every returned row's MAZ has its parent TAZ among the input
\* draws of the row's chooser with the row's additional key.
C26_MazOfOwnDraw ==
    MazDone /\ od.result.kind = "ok"
    => LET draws == od.result.value.taz_choices
           rows == od.result.value.taz_choices_w_maz
       IN  /\ \A i \in 1..Len(draws) :
                 draws[i].dest_TAZ \in ParentsOf(od.MAZ_size_terms, draws[i].dest_MAZ)
           /\ \A g \in 1..Len(rows) :
                 \E t \in 1..Len(od.taz_sample) :
                    /\ od.taz_sample[t].chooser = rows[g].chooser
                    /\ od.taz_sample[t].key = rows[g].key
                    /\ od.taz_sample[t].dest_TAZ
                          \in ParentsOf(od.MAZ_size_terms, rows[g].dest_MAZ)

\* C26 witness: chooser 7 drew TAZ 1 twice and chooser 8 TAZ 1 and then TAZ
\* 2; the last draw, behind three draws with two candidates each, has MAZ 21
\* of TAZ 2, and chooser 7 has no row for MAZ 21.
C26_Witness ==
    /\ MazDone
    /\ od.result.kind = "ok"
    /\ Len(od.result.value.taz_choices) = 4
    /\ od.result.value.taz_choices[4].chooser = 8
    /\ od.result.value.taz_choices[4].dest_TAZ = 2
    /\ od.result.value.taz_choices[4].dest_MAZ = 21
    /\ od.result.value.taz_choices[3].dest_MAZ = 12
    /\ \A g \in 1..Len(od.result.value.taz_choices_w_maz) :
          od.result.value.taz_choices_w_maz[g].chooser = 7
          => od.result.value.taz_choices_w_maz[g].dest_MAZ # 21

\* the precondition of C27: every MAZ has one parent TAZ and taz_sample has
\* at most one row per (chooser, origin, TAZ)
C27_Case ==
    /\ MazDone /\ od.result.kind = "ok"
    /\ \A k \in 1..Len(od.MAZ_size_terms) :
          Cardinality(ParentsOf(od.MAZ_size_terms, od.MAZ_size_terms[k].zone_id)) = 1
    /\ \A t, u \in 1..Len(od.taz_sample) :
          (/\ od.taz_sample[t].chooser = od.taz_sample[u].chooser
           /\ od.taz_sample[t].key = od.taz_sample[u].key
           /\ od.taz_sample[t].dest_TAZ = od.taz_sample[u].dest_TAZ) => t = u

\* C27: with the origin as additional key, one parent TAZ per MAZ and at
\* most one input row per (chooser, origin, TAZ), the draws collapsed into a
\* returned row are pick_count draws of the same chooser, MAZ and origin and
\* all have the row's probability: first, minimum and maximum agree.
C27_CollapsedDrawsAgree ==
    C27_Case
    => LET draws == od.result.value.taz_choices
           rows == od.result.value.taz_choices_w_maz
       IN  \A g \in 1..Len(rows) :
              LET mine == {i \in 1..Len(draws) :
                             /\ draws[i].chooser = rows[g].chooser
                             /\ draws[i].dest_MAZ = rows[g].dest_MAZ
                             /\ draws[i].key = rows[g].key}
              IN  /\ Cardinality(mine) = rows[g].pick_count
                  /\ \A i \in mine : draws[i].prob = rows[g].prob

\* C27 witness: both picks of one TAZ draw chose MAZ 12: one row with
\* pick_count 2 whose two draws have the same probability.
C27_Witness ==
    /\ C27_Case
    /\ Len(od.taz_sample) = 1
    /\ Len(od.result.value.taz_choices) = 2
    /\ Len(od.result.value.taz_choices_w_maz) = 1
    /\ od.result.value.taz_choices_w_maz[1].dest_MAZ = 12
    /\ od.result.value.taz_choices_w_maz[1].pick_count = 2
    /\ od.result.value.taz_choices[1].prob = od.result.value.taz_choices[2].prob

\* both calls of choose_MAZ_for_TAZ have returned a table
C22_Case ==
    /\ od.fn = "choose_MAZ_for_TAZ twice" /\ pc = "returned"
    /\ od.result_alone.kind = "ok" /\ od.result_among.kind = "ok"

\* the rows a result has for chooser 7
RowsOf7(result) == SelectSeq(result.value.taz_choices_w_maz, LAMBDA r : r.chooser = 7)

\* C22: two calls of choose_MAZ_for_TAZ that agree on the rows and the random
\* numbers of a chooser and on the MAZ size terms return the same rows (MAZ,
\* key, probability, pick_count) for that chooser, whichever other chooser
\* is present, before or after, and however many MAZs the other chooser's
\* TAZs have.
C22_OwnRowsOnly ==
    C22_Case => RowsOf7(od.result_alone) = RowsOf7(od.result_among)

\* C22 witness: chooser 7 drew TAZ 2 (one MAZ) and chooser 6, who comes
\* first, TAZ 1 (two MAZs, so the padded array is two wide instead of one);
\* chooser 7 has the same single row in both results.
C22_Witness ==
    /\ C22_Case
    /\ od.alone.taz_sample = <<taz_row(7, 2, 1, 2, 5)>>
    /\ od.among.taz_sample[1].chooser = 6
    /\ od.among.taz_sample[1].dest_TAZ = 1
    /\ Len(RowsOf7(od.result_among)) = 1
    /\ RowsOf7(od.result_among)[1].pick_count = 2
    /\ RowsOf7(od.result_alone) = RowsOf7(od.result_among)
    /\ Len(od.result_among.value.taz_choices_w_maz) > 1

\* the origin zones that pass the filter, read off land_use
C21_Origins ==
    {od.land_use[k].zone_id :
        k \in {k \in 1..Len(od.land_use) :
                  od.origin_filter = NoneVal \/ od.land_use[k].external_TAZ > 0}}

\* C21: the alternatives have one row for every pair of a filtered origin
\* and a destination of the size-term table and no other row; a row carries
\* its destination's size term and the id "{origin}_{destination}", and the
\* two pieces of the id split at "_" are the row's origin and destination.
C21_OdAltsAreTheCross ==
    od.fn = "_create_od_alts_from_dest_size_terms" /\ pc \in {"od_alts", "returned"}
    => LET rows == od.od_alts
           dests == 1..Len(od.size_terms_df)
       IN  /\ Len(rows) = Cardinality(C21_Origins) * Len(od.size_terms_df)
           /\ \A o \in C21_Origins, d \in dests :
                 Cardinality({k \in 1..Len(rows) :
                                 /\ rows[k].origin = o
                                 /\ rows[k].destination = od.size_terms_df[d].zone_id
                                 /\ rows[k].size_term = od.size_terms_df[d].size_term})
                    = 1
           /\ \A k, l \in 1..Len(rows) : rows[k].od_id = rows[l].od_id => k = l
           /\ \A k \in 1..Len(rows) :
                 \E i \in 1..Len(rows[k].od_id) :
                    /\ rows[k].od_id[i] = "_"
                    /\ SubSeq(rows[k].od_id, 1, i - 1) = astype_str(rows[k].origin)
                    /\ SubSeq(rows[k].od_id, i + 1, Len(rows[k].od_id))
                          = astype_str(rows[k].destination)
           /\ pc = "returned"
                 => \A k \in 1..Len(rows) :
                       /\ od.od_cols[k].origin = rows[k].origin
                       /\ od.od_cols[k].destination = rows[k].destination

\* C21 witness: origins 1 and 21 and destinations 1 and 12 give the four
\* rows 1_1, 21_1, 1_12, 21_12, which split back into their zones.
C21_Witness ==
    /\ od.fn = "_create_od_alts_from_dest_size_terms" /\ pc = "returned"
    /\ Len(od.od_alts) = 4
    /\ od.od_alts[2].od_id = <<"2", "1", "_", "1">>
    /\ od.od_alts[3].od_id = <<"1", "_", "1", "2">>
    /\ od.od_cols[2] = [origin |-> 21, destination |-> 1]
    /\ od.od_cols[3] = [origin |-> 1, destination |-> 12]
    /\ od.od_alts[3].size_term = 3

\* C24: deleting a StateAttr attribute that has a value removes the value
\* from the context, and the next read of the attribute raises
\* StateAccessError.
C24_DeleteRemovesValue ==
    [][\A name \in StateAttrs :
          (DelAttr(name) /\ name \in DOMAIN ctx)
          => /\ name \notin DOMAIN ctx'
             /\ StateAttr_get(ctx', name) = Error("StateAccessError", {name})]_vars

\* the state C24 fails in: `del state.settings` has raised TypeError and the
\* settings are still in the context
C24_Stuck ==
    /\ last.op = "__delete__" /\ last.key = "settings"
    /\ last.out = Error("TypeError", {"settings"})
    /\ StateAttr_get(ctx, "settings") = Ok(SettingsObj)

\* the predicate graph without the keys that were not cached when the call
\* was made (the key written by set is cached by the call)
C28_CachedGraph ==
    LET present == od.cached \cup {od.key}
    IN  [k \in DOMAIN predicates \cap present |-> FilterSeq(predicates[k], present)]

\* the key of the call lies on a predicate cycle whose members were all
\* cached
C28_OnCachedCycle == od.key \in Dependents(C28_CachedGraph, od.key)

\* C28: a call of set returns and a call of drop returns or raises the
\* KeyError of a missing key, for every predicate graph, cyclic or not; the
\* stack of nested drop calls is never deeper than the number of tables;
\* and after set(K, v) with K on a cycle of cached keys K is not in the
\* context.
C28_SetAndDropTerminate ==
    /\ <>(pc \in {"returned", "raised"})
    /\ [](pc = "raised" => od.fn = "drop" /\ od.key \notin od.cached)
    /\ [](Len(od.stack) <= Cardinality(TableKeys) + 1)
    /\ [](pc = "returned"
            => /\ ctx = IF od.fn = "set"
                        THEN set([k \in od.cached |-> FA], predicates, od.key, od.value)
                        ELSE drop([k \in od.cached |-> FA], predicates, od.key)
               /\ (od.fn = "set" /\ C28_OnCachedCycle) => od.key \notin DOMAIN ctx)

\* C28 witness: set(land_use, v) has returned on the cycle land_use ->
\* accessibility -> trips_merged -> land_use with all three cached: the
\* context is empty, land_use included.
C28_Witness ==
    /\ pc = "returned"
    /\ od.fn = "set" /\ od.key = "land_use"
    /\ predicates = ThreeCycle
    /\ od.cached = TableKeys
    /\ C28_OnCachedCycle
    /\ ctx = EmptyDict

\* C23: get_table(T) without a checkpoint name returns the version of T the
\* context holds whenever T is a registered table, after every sequence of
\* add_table, extend_table, drop_table and add_checkpoint.
C23_GetTableReturnsCurrent ==
    \A T \in TableKeys :
       (is_table(status, T) /\ T \in DOMAIN ctx)
       => GetTableNow(T, NoCheckpoint) = Ok(ctx[T])

\* the state C23 fails in: land_use was checkpointed, dropped and added
\* again; it is registered and in the context, and get_table raises
C23_Stuck ==
    /\ is_table(status, "land_use")
    /\ "land_use" \in DOMAIN ctx
    /\ "land_use" \in DOMAIN last_checkpoint
    /\ last_checkpoint["land_use"] = Dropped
    /\ GetTableNow("land_use", NoCheckpoint).kind = "error"

\* C29: drop_table(T) does not run the invalidation cascade: every key other
\* than T that was in the context before the call, the keys predicated on T
\* included, is still there with the same value; State.drop(T) on a cached T
\* removes T and every cached key directly predicated on it.
C29_DropTableDoesNotCascade ==
    [][\A T \in TableKeys :
          /\ DropTable(T)
             => /\ \A k \in DOMAIN ctx \ {T} : k \in DOMAIN ctx' /\ ctx'[k] = ctx[k]
                /\ DOMAIN ctx' \in {DOMAIN ctx, DOMAIN ctx \ {T}}
          /\ (Drop(T) /\ T \in DOMAIN ctx)
             => /\ T \notin DOMAIN ctx'
                /\ \A k \in SeqSet(PredsOf(predicates, T)) : k \notin DOMAIN ctx']_vars

\* C29 witness: land_use and accessibility were written at c1, the only
\* checkpoint; accessibility, predicated on land_use, has not been touched
\* since (its registry entry is still cleared) and is cached as it was
\* written, while land_use carries the marker only drop_table leaves and is
\* gone from the context and the registry.
C29_Witness ==
    /\ Len(checkpoints) = 1
    /\ WrittenAt(checkpoints, 1, "land_use")
    /\ WrittenAt(checkpoints, 1, "accessibility")
    /\ last_checkpoint["land_use"] = Dropped
    /\ "land_use" \notin DOMAIN ctx
    /\ ~is_table(status, "land_use")
    /\ "accessibility" \in SeqSet(PredsOf(predicates, "land_use"))
    /\ last_checkpoint["accessibility"] = "c1"
    /\ "accessibility" \in DOMAIN status
    /\ status["accessibility"] = FALSE
    /\ "accessibility" \in DOMAIN ctx
    /\ ctx["accessibility"] = store[pipeline_table_key("accessibility", "c1")]

\* C30: a table of _TEMP_NAMES is never entered in the registry by add_table
\* or extend_table with default arguments, so is_table stays false and the
\* name is never among uncheckpointed_table_names(); extend_table(name, df)
\* on it never appends: it returns df and the context holds df alone.
C30_TempTableNeverRegistered ==
    [][\A name \in TEMP_NAMES :
          /\ ~is_table(status, name) /\ ~is_table(status', name)
          /\ name \notin DOMAIN status'
          /\ name \notin uncheckpointed_table_names(status')
          /\ \A df \in AllFrames : \A axis \in {0, 1} :
                ExtendTable(name, df, axis)
                => /\ last'.out = Ok(df)
                   /\ name \in DOMAIN ctx' /\ ctx'[name] = df]_vars

\* C30 witness: under the chain graph land_use, registered, was extended from
\* FA by FB and holds both rows, while trips_merged, which no step of the run
\* removes once added, was extended by FB and holds FB alone, unregistered.
C30_Witness ==
    /\ predicates = ChainGraph
    /\ is_table(status, "land_use")
    /\ "land_use" \in DOMAIN ctx
    /\ ctx["land_use"] = extended(FA, FB, 0).value
    /\ last = Called("extend_table", "trips_merged", <<FB, 0>>, Ok(FB))
    /\ ctx["trips_merged"] = FB
    /\ ~is_table(status, "trips_merged")
    /\ "trips_merged" \notin uncheckpointed_table_names(status)

====
